---------------------------- MODULE Spec2Model ----------------------------
(***************************************************************************)
(* A model of the rust_nn network/node engine (src/src/network.rs,         *)
(* src/src/node.rs, src/src/sigmoid.rs, src/src/util.rs,                   *)
(* src/src/training_data.rs).                                              *)
(*                                                                         *)
(* Numbers.  The program computes in f64.  The model computes in a binary  *)
(* fixed-point format with Scale units per 1.0: every arithmetic operation *)
(* rounds its exact result to the nearest representable value, ties to     *)
(* even, as an IEEE operation does, and the three special values of the    *)
(* format (NaN, +inf, -inf) follow the IEEE rules.  A value v of the model *)
(* stands for the real v / Scale.                                          *)
(*                                                                         *)
(* Indices.  Layers, nodes and weights are addressed from 0, as in the     *)
(* code; the sequences that hold them are TLA+ sequences, so the element   *)
(* with index i is stored at position i + 1.                               *)
(***************************************************************************)
EXTENDS Integers, Sequences, FiniteSets, TLC

-----------------------------------------------------------------------------
(* f64 *)

\* units per 1.0 of the fixed-point format that stands for f64
Scale == 8

\* the special values of the format, kept apart from every finite value
NaN == 1000003
PInf == 1000001
NInf == 1000002

IsNaN(x) == x = NaN
IsInf(x) == x = PInf \/ x = NInf
IsFinite(x) == ~IsNaN(x) /\ ~IsInf(x)

\* the sign of a value that is not NaN
Sgn(x) == IF x = PInf THEN 1 ELSE IF x = NInf THEN -1
          ELSE IF x > 0 THEN 1 ELSE IF x < 0 THEN -1 ELSE 0

InfOfSign(s) == IF s > 0 THEN PInf ELSE NInf

\* n / d for d > 0, rounded to the nearest integer, ties to even
RoundDiv(n, d) ==
    LET q == n \div d
        r == n % d
    IN  IF 2 * r < d THEN q
        ELSE IF 2 * r > d THEN q + 1
        ELSE IF q % 2 = 0 THEN q ELSE q + 1

FNeg(a) == IF IsNaN(a) THEN NaN
           ELSE IF a = PInf THEN NInf
           ELSE IF a = NInf THEN PInf
           ELSE 0 - a

FAdd(a, b) ==
    IF IsNaN(a) \/ IsNaN(b) THEN NaN
    ELSE IF IsInf(a) /\ IsInf(b) THEN (IF a = b THEN a ELSE NaN)
    ELSE IF IsInf(a) THEN a
    ELSE IF IsInf(b) THEN b
    ELSE a + b

FSub(a, b) == FAdd(a, FNeg(b))

FMul(a, b) ==
    IF IsNaN(a) \/ IsNaN(b) THEN NaN
    ELSE IF IsInf(a) \/ IsInf(b)
         THEN (IF Sgn(a) * Sgn(b) = 0 THEN NaN ELSE InfOfSign(Sgn(a) * Sgn(b)))
    ELSE RoundDiv(a * b, Scale)

FDiv(a, b) ==
    IF IsNaN(a) \/ IsNaN(b) THEN NaN
    ELSE IF IsInf(a) /\ IsInf(b) THEN NaN
    ELSE IF IsInf(a) THEN InfOfSign(Sgn(a) * (IF Sgn(b) < 0 THEN -1 ELSE 1))
    ELSE IF IsInf(b) THEN 0
    ELSE IF b = 0 THEN (IF a = 0 THEN NaN ELSE InfOfSign(Sgn(a)))
    ELSE IF b > 0 THEN RoundDiv(a * Scale, b)
    ELSE RoundDiv((0 - a) * Scale, 0 - b)

\* `n as f64` for a usize n
FromUsize(n) == n * Scale

\* the f64 literals the code uses
F0 == FromUsize(0)
F1 == FromUsize(1)
F2 == FromUsize(2)

\* f64::exp: the table holds round(Scale * e^(y / Scale)) for y in
\* -ExpRange .. ExpRange; below it the result rounds to 0 (underflow), above
\* it the format overflows to +inf.
ExpRange == 24
ExpTable == << 0, 0, 1, 1, 1, 1, 1, 1, 1, 1, 1, 2, 2, 2, 2, 3, 3, 3, 4, 4, 5, 5,
               6, 7, 8, 9, 10, 12, 13, 15, 17, 19, 22, 25, 28, 32, 36, 41, 46,
               52, 59, 67, 76, 86, 97, 110, 125, 142, 161 >>

Exp(y) ==
    IF IsNaN(y) THEN NaN
    ELSE IF y = PInf THEN PInf
    ELSE IF y = NInf THEN 0
    ELSE IF y > ExpRange THEN PInf
    ELSE IF y < 0 - ExpRange THEN 0
    ELSE ExpTable[y + ExpRange + 1]

-----------------------------------------------------------------------------
(* sigmoid.rs, util.rs *)

Sigmoid(x) == FDiv(F1, FAdd(F1, Exp(FNeg(x))))

SigDeriv(x) == LET s == Sigmoid(x) IN FMul(s, FSub(F1, s))

\* (a - b).powi(2)
\* a variant of error_f that does not square
error_f_unsquared(a, b) == FSub(a, b)

error_f(a, b) == LET d == FSub(a, b) IN FMul(d, d)

error_deriv(output, expected) == FMul(F2, FSub(output, expected))

-----------------------------------------------------------------------------
(* Option<f64>: None is the empty sequence, Some(v) the sequence << v >> *)

None == << >>
Some(v) == << v >>
IsSome(o) == o # None
Unwrap(o) == o[1]

\* vec![v; n]
VecOf(v, n) == [k \in 1..n |-> v]

-----------------------------------------------------------------------------
(* node.rs: the two kinds of node *)

\* StartNode::new
StartNode_new(value) == [type |-> "StartNode", value |-> value]

\* Node::new
Node_new(bias, inp_w, layer) ==
    [type |-> "Node",
     bias |-> bias,
     inp_w |-> inp_w,
     layer |-> layer,
     result_cache |-> None,
     sum_cache |-> None,
     bias_nudge_sum |-> F0,
     inp_w_nudge_sum |-> VecOf(F0, Len(inp_w)),
     nudge_cnt |-> 0,
     requested_nudge |-> F0]

\* a variant of request_nudge that sets the nudge instead of adding it
request_nudge_overwrite(n, nudge) ==
    IF n.type = "Node"
    THEN [n EXCEPT !.requested_nudge = nudge]
    ELSE n

\* Node::request_nudge; the trait's default, which StartNode keeps, does nothing
request_nudge(n, nudge) ==
    IF n.type = "Node"
    THEN [n EXCEPT !.requested_nudge = FAdd(n.requested_nudge, nudge)]
    ELSE n

\* a variant of Node::apply_nudges that adds the sums and takes no mean
Node_apply_nudges_no_mean(n) ==
    [n EXCEPT
       !.bias = FAdd(n.bias, n.bias_nudge_sum),
       !.inp_w = [i \in 1..Len(n.inp_w) |-> FAdd(n.inp_w[i], n.inp_w_nudge_sum[i])]]

\* Node::apply_nudges
Node_apply_nudges(n) ==
    LET inv_cnt == FDiv(F1, FromUsize(n.nudge_cnt))
    IN  [n EXCEPT
           !.bias = FAdd(n.bias, FMul(n.bias_nudge_sum, inv_cnt)),
           !.inp_w = [i \in 1..Len(n.inp_w) |->
                        IF i <= Len(n.inp_w_nudge_sum)
                        THEN FAdd(n.inp_w[i], FMul(n.inp_w_nudge_sum[i], inv_cnt))
                        ELSE n.inp_w[i]]]

\* a variant of Node::clear_nudges that leaves requested_nudge
Node_clear_nudges_keep_request(n) ==
    [n EXCEPT !.nudge_cnt = 0,
              !.bias_nudge_sum = F0,
              !.inp_w_nudge_sum = VecOf(F0, Len(n.inp_w))]

\* a variant of Node::clear_nudges that clears the caches too
Node_clear_nudges_and_caches(n) ==
    [n EXCEPT !.nudge_cnt = 0,
              !.bias_nudge_sum = F0,
              !.inp_w_nudge_sum = VecOf(F0, Len(n.inp_w)),
              !.requested_nudge = F0,
              !.sum_cache = None,
              !.result_cache = None]

\* a variant of Node::clear_nudges that sizes inp_w_nudge_sum one too long
Node_clear_nudges_longer(n) ==
    [n EXCEPT !.nudge_cnt = 0,
              !.bias_nudge_sum = F0,
              !.inp_w_nudge_sum = VecOf(F0, Len(n.inp_w) + 1),
              !.requested_nudge = F0]

\* Node::clear_nudges
Node_clear_nudges(n) ==
    [n EXCEPT !.nudge_cnt = 0,
              !.bias_nudge_sum = F0,
              !.inp_w_nudge_sum = VecOf(F0, Len(n.inp_w)),
              !.requested_nudge = F0]

\* a variant of invalidate that clears the cached sum only
Node_invalidate_sum_only(n) ==
    IF n.type = "Node" THEN [n EXCEPT !.sum_cache = None] ELSE n

\* <Node as NodeLike>::invalidate; the trait's default does nothing
Node_invalidate(n) ==
    IF n.type = "Node"
    THEN [n EXCEPT !.sum_cache = None, !.result_cache = None]
    ELSE n

-----------------------------------------------------------------------------
(* network.rs: construction and indexing *)

\* NetworkConfig::default().learning_rate
DefaultLearningRate == F1

\* a variant of with_config that sizes the weights by the node's own layer
with_config_own_size(config) ==
    [config |-> config,
     layers |-> [i \in 1..Len(config.shape) |->
                   [k \in 1..config.shape[i] |->
                      IF i # 1
                      THEN Node_new(F0, VecOf(F0, config.shape[i]), i - 1)
                      ELSE StartNode_new(F0)]]]

\* Network::with_config, for a shape of at least two layers (try_with_config
\* is the function with the assertion of lines 40-43)
with_config(config) ==
    [config |-> config,
     layers |-> [i \in 1..Len(config.shape) |->
                   [k \in 1..config.shape[i] |->
                      IF i # 1
                      THEN Node_new(F0, VecOf(F0, config.shape[i - 1]), i - 1)
                      ELSE StartNode_new(F0)]]]

\* Network::new
Network_new(shape) == with_config([learning_rate |-> DefaultLearningRate, shape |-> shape])

n_layers(nw) == Len(nw.layers)
get_layer(nw, li) == nw.layers[li + 1]
last_layer(nw) == nw.layers[Len(nw.layers)]
get_node(nw, li, ni) == nw.layers[li + 1][ni + 1]

\* the network with node (li, ni) replaced: what a write through a reference
\* obtained from get_node / get_node_mut does
put_node(nw, li, ni, n) == [nw EXCEPT !.layers[li + 1][ni + 1] = n]

\* the addresses of the compute layers' nodes
ComputeNodes(nw) ==
    UNION {{<<li, ni>> : ni \in 0..(Len(get_layer(nw, li)) - 1)} : li \in 1..(n_layers(nw) - 1)}

-----------------------------------------------------------------------------
(* node.rs: evaluation.  Each operator returns the value the call returns  *)
(* and the network as the call leaves it (the caches are RefCells that a   *)
(* call through &self writes).                                             *)

RECURSIVE get_value(_, _, _), get_sum(_, _, _), SumInputs(_, _, _, _, _)

\* the iterator chain of Node::get_sum from weight index i on, acc being the
\* sum so far
SumInputs(nw, li, ni, i, acc) ==
    LET n == get_node(nw, li, ni)
    IN  IF i >= Len(n.inp_w)
        THEN [nw |-> nw, val |-> acc]
        ELSE LET r == get_value(nw, li - 1, i)
             IN  SumInputs(r.nw, li, ni, i + 1, FAdd(acc, FMul(r.val, n.inp_w[i + 1])))

\* a variant of get_sum that does not store the sum
get_sum_uncached(nw, li, ni) ==
    LET n == get_node(nw, li, ni)
    IN  IF IsSome(n.sum_cache)
        THEN [nw |-> nw, val |-> Unwrap(n.sum_cache)]
        ELSE LET s == SumInputs(nw, li, ni, 0, F0)
             IN  [nw |-> s.nw, val |-> FAdd(s.val, n.bias)]

\* a variant of get_sum that leaves out the bias
get_sum_no_bias(nw, li, ni) ==
    LET n == get_node(nw, li, ni)
    IN  IF IsSome(n.sum_cache)
        THEN [nw |-> nw, val |-> Unwrap(n.sum_cache)]
        ELSE LET s == SumInputs(nw, li, ni, 0, F0)
                 m == get_node(s.nw, li, ni)
             IN  [nw |-> put_node(s.nw, li, ni, [m EXCEPT !.sum_cache = Some(s.val)]),
                  val |-> s.val]

\* Node::get_sum
get_sum(nw, li, ni) ==
    LET n == get_node(nw, li, ni)
    IN  IF IsSome(n.sum_cache)
        THEN [nw |-> nw, val |-> Unwrap(n.sum_cache)]
        ELSE LET s == SumInputs(nw, li, ni, 0, F0)
                 inp_sum == FAdd(s.val, n.bias)
                 m == get_node(s.nw, li, ni)
             IN  [nw |-> put_node(s.nw, li, ni, [m EXCEPT !.sum_cache = Some(inp_sum)]),
                  val |-> inp_sum]

\* a variant of get_value that never reads result_cache
get_value_recompute(nw, li, ni) ==
    LET n == get_node(nw, li, ni)
    IN  IF n.type = "StartNode"
        THEN [nw |-> nw, val |-> n.value]
        ELSE LET s == SumInputs(nw, li, ni, 0, F0)
                 val == Sigmoid(FAdd(s.val, n.bias))
                 m == get_node(s.nw, li, ni)
             IN  [nw |-> put_node(s.nw, li, ni,
                            [m EXCEPT !.sum_cache = Some(FAdd(s.val, n.bias)),
                                      !.result_cache = Some(val)]),
                  val |-> val]

\* NodeLike::get_value, for both kinds of node
get_value(nw, li, ni) ==
    LET n == get_node(nw, li, ni)
    IN  IF n.type = "StartNode"
        THEN [nw |-> nw, val |-> n.value]
        ELSE IF IsSome(n.result_cache)
        THEN [nw |-> nw, val |-> Unwrap(n.result_cache)]
        ELSE LET r == get_sum(nw, li, ni)
                 val == Sigmoid(r.val)
                 m == get_node(r.nw, li, ni)
             IN  [nw |-> put_node(r.nw, li, ni, [m EXCEPT !.result_cache = Some(val)]),
                  val |-> val]

-----------------------------------------------------------------------------
(* network.rs: the operations on the whole network, as functions of the    *)
(* network.  Those that evaluate return [nw, val] like get_value.          *)

\* a variant of Network::invalidate with skip(2): the first compute layer is
\* left out
Network_invalidate_skip_2(nw) ==
    [nw EXCEPT !.layers = [i \in 1..Len(nw.layers) |->
                             IF i > 2
                             THEN [k \in 1..Len(nw.layers[i]) |-> Node_invalidate(nw.layers[i][k])]
                             ELSE nw.layers[i]]]

\* Network::invalidate
Network_invalidate(nw) ==
    [nw EXCEPT !.layers = [i \in 1..Len(nw.layers) |->
                             IF i > 1
                             THEN [k \in 1..Len(nw.layers[i]) |-> Node_invalidate(nw.layers[i][k])]
                             ELSE nw.layers[i]]]

\* Network::get_output
get_output(nw, i) == get_value(nw, n_layers(nw) - 1, i)

RECURSIVE OutputsFrom(_, _, _)
\* the iterator chain of Network::get_outputs from node index i on
OutputsFrom(nw, i, acc) ==
    IF i >= Len(last_layer(nw))
    THEN [nw |-> nw, val |-> acc]
    ELSE LET r == get_value(nw, n_layers(nw) - 1, i)
         IN  OutputsFrom(r.nw, i + 1, Append(acc, r.val))

\* Network::get_outputs
get_outputs(nw) == OutputsFrom(nw, 0, << >>)

RECURSIVE CostFrom(_, _, _, _)
\* the iterator chain of Network::get_current_cost from node index i on
CostFrom(nw, expected, i, acc) ==
    IF i >= Len(last_layer(nw))
    THEN [nw |-> nw, val |-> acc]
    ELSE LET r == get_value(nw, n_layers(nw) - 1, i)
         IN  CostFrom(r.nw, expected, i + 1, FAdd(acc, error_f(expected[i + 1], r.val)))

\* Network::get_current_cost, for an expected of the last layer's length
get_current_cost(nw, expected) == CostFrom(nw, expected, 0, F0)

\* a variant of set_input that invalidates the network after the write
set_input_invalidating(nw, i, value) ==
    Network_invalidate(put_node(nw, 0, i, [get_node(nw, 0, i) EXCEPT !.value = value]))

\* StartNode::set_value through Network::set_input
set_input(nw, i, value) ==
    put_node(nw, 0, i, [get_node(nw, 0, i) EXCEPT !.value = value])

\* Network::set_inputs, for inputs of layer 0's length
set_inputs(nw, inputs) ==
    [nw EXCEPT !.layers[1] = [k \in 1..Len(nw.layers[1]) |->
                                [nw.layers[1][k] EXCEPT !.value = inputs[k]]]]

RECURSIVE RequestFrom(_, _, _, _)
\* the for_each of Network::request_nudges_end from node index i on
RequestFrom(nw, outputs, expected, i) ==
    IF i >= Len(last_layer(nw))
    THEN nw
    ELSE LET li == n_layers(nw) - 1
             want_nudge == FMul(error_deriv(outputs[i + 1], expected[i + 1]), FNeg(F1))
         IN  RequestFrom(put_node(nw, li, i, request_nudge(get_node(nw, li, i), want_nudge)),
                         outputs, expected, i + 1)

\* Network::request_nudges_end
request_nudges_end(nw, expected) ==
    LET o == get_outputs(nw) IN RequestFrom(o.nw, o.val, expected, 0)

\* the weight nudge of the for_each: inp_w_nudge_sum[i] += nudge
AddWeightNudge(net, li, ni, i, nudge) ==
    LET m == get_node(net, li, ni)
    IN  put_node(net, li, ni,
           [m EXCEPT !.inp_w_nudge_sum[i + 1] = FAdd(m.inp_w_nudge_sum[i + 1], nudge)])

\* a variant of the nudge of the previous node that leaves out the weight
RequestPrev_unweighted(net, li, ni, i, base_nudge) ==
    LET n == get_node(net, li, ni)
        p == get_node(net, li - 1, i)
    IN  IF n.layer > 1
        THEN put_node(net, li - 1, i,
                [p EXCEPT !.requested_nudge = FAdd(p.requested_nudge, base_nudge)])
        ELSE net

\* the nudge of the previous node of the for_each: for a node of a layer
\* after the first, requested_nudge of node i of the layer before += nudge
RequestPrev(net, li, ni, i, base_nudge) ==
    LET n == get_node(net, li, ni)
        p == get_node(net, li - 1, i)
    IN  IF n.layer > 1
        THEN put_node(net, li - 1, i,
                [p EXCEPT !.requested_nudge =
                    FAdd(p.requested_nudge, FMul(base_nudge, n.inp_w[i + 1]))])
        ELSE net

\* one round of the for_each of Node::calc_nudge, r being what get_value on
\* node i of the layer before returned and left
NudgeInput(r, li, ni, base_nudge, i) ==
    RequestPrev(AddWeightNudge(r.nw, li, ni, i, FMul(base_nudge, r.val)), li, ni, i, base_nudge)

RECURSIVE NudgeInputs(_, _, _, _, _)
\* the for_each of Node::calc_nudge from weight index i on
NudgeInputs(nw, li, ni, base_nudge, i) ==
    IF i >= Len(get_node(nw, li, ni).inp_w)
    THEN nw
    ELSE NudgeInputs(NudgeInput(get_value(nw, li - 1, i), li, ni, base_nudge, i),
                     li, ni, base_nudge, i + 1)

\* a variant of base_nudge without the learning rate
BaseNudge_no_rate(s, li, ni, learning_rate) ==
    FMul(get_node(s.nw, li, ni).requested_nudge, SigDeriv(s.val))

\* base_nudge of Node::calc_nudge, s being what get_sum returned and left
BaseNudge(s, li, ni, learning_rate) ==
    FMul(FMul(get_node(s.nw, li, ni).requested_nudge, SigDeriv(s.val)), learning_rate)

\* the bias nudge of Node::calc_nudge: bias_nudge_sum += base_nudge
AddBiasNudge(net, li, ni, base_nudge) ==
    LET n == get_node(net, li, ni)
    IN  put_node(net, li, ni, [n EXCEPT !.bias_nudge_sum = FAdd(n.bias_nudge_sum, base_nudge)])

\* the end of Node::calc_nudge: nudge_cnt += by
CountNudge(net, li, ni, by) ==
    LET m == get_node(net, li, ni)
    IN  put_node(net, li, ni, [m EXCEPT !.nudge_cnt = m.nudge_cnt + by])

\* Node::calc_nudge after get_sum, s being what get_sum returned and left
NudgeFrom(s, li, ni, base_nudge) ==
    NudgeInputs(AddBiasNudge(s.nw, li, ni, base_nudge), li, ni, base_nudge, 0)

\* a variant of calc_nudge that counts once per input, inside the for_each
calc_nudge_count_per_input(nw, li, ni) ==
    CountNudge(NudgeFrom(get_sum(nw, li, ni), li, ni,
                         BaseNudge(get_sum(nw, li, ni), li, ni, nw.config.learning_rate)),
               li, ni, Len(get_node(nw, li, ni).inp_w))

\* a variant of calc_nudge that uses up the node's requested_nudge
calc_nudge_consuming(nw, li, ni) ==
    LET net == CountNudge(NudgeFrom(get_sum(nw, li, ni), li, ni,
                                    BaseNudge(get_sum(nw, li, ni), li, ni, nw.config.learning_rate)),
                          li, ni, 1)
    IN  put_node(net, li, ni, [get_node(net, li, ni) EXCEPT !.requested_nudge = F0])

\* Node::calc_nudge on node (li, ni)
calc_nudge(nw, li, ni) ==
    CountNudge(NudgeFrom(get_sum(nw, li, ni), li, ni,
                         BaseNudge(get_sum(nw, li, ni), li, ni, nw.config.learning_rate)),
               li, ni, 1)

-----------------------------------------------------------------------------
(* network.rs: the order in which the loops visit the nodes *)

RECURSIVE Flatten(_)
Flatten(ss) == IF ss = << >> THEN << >> ELSE Head(ss) \o Flatten(Tail(ss))

\* Iterator::rev
Rev(s) == [k \in 1..Len(s) |-> s[Len(s) + 1 - k]]

\* Iterator::skip(1)
Skip1(s) == IF s = << >> THEN << >> ELSE Tail(s)

\* the indices of the layers, in the order of self.layers.iter()
LayerIndices(nw) == [k \in 1..n_layers(nw) |-> k - 1]

\* the addresses of the nodes of layer li, in the order of l.iter()
LayerNodes(nw, li) == [k \in 1..Len(get_layer(nw, li)) |-> <<li, k - 1>>]

\* a variant of the sweep without rev(): first layer first
SweepOrder_no_rev(nw) ==
    LET ls == Skip1(LayerIndices(nw))
    IN  Flatten([k \in 1..Len(ls) |-> LayerNodes(nw, ls[k])])

\* self.layers.iter().skip(1).rev(), each layer in index order: the nodes in
\* the order train_on_current_data calls calc_nudge on them
SweepOrder(nw) ==
    LET ls == Rev(Skip1(LayerIndices(nw)))
    IN  Flatten([k \in 1..Len(ls) |-> LayerNodes(nw, ls[k])])

\* self.layers.iter_mut().skip(1), each layer in index order: the nodes in the
\* order apply_nudges and clear_nudges visit them
ForwardOrder(nw) ==
    LET ls == Skip1(LayerIndices(nw))
    IN  Flatten([k \in 1..Len(ls) |-> LayerNodes(nw, ls[k])])

-----------------------------------------------------------------------------
(* network.rs: the training functions as functions of the network: what a  *)
(* whole call computes                                                     *)

RECURSIVE CalcAll(_, _)
\* calc_nudge on the nodes of order, one after the other
CalcAll(net, order) ==
    IF order = << >> THEN net
    ELSE CalcAll(calc_nudge(net, Head(order)[1], Head(order)[2]), Tail(order))

\* Network::train_on_current_data
train_on_current_data(net, expected) ==
    CalcAll(request_nudges_end(net, expected), SweepOrder(net))

\* Network::train_on_data
train_on_data(net, data) ==
    train_on_current_data(Network_invalidate(set_inputs(net, data.inputs)), data.expected)

-----------------------------------------------------------------------------
(* The bounds of the model *)

\* the work of one run of the program: every call the driver makes counts 1,
\* and so does every example and every batch it passes to the training
\* interface
MaxWork == 4

\* the configurations a network is constructed with
Configs ==
    {[learning_rate |-> FMul(F2, F2), shape |-> <<1, 1, 2>>],
     [learning_rate |-> DefaultLearningRate, shape |-> <<2, 1>>]}
\* the values a caller sets an input and a weight to
InputVals == {F0, F1}
WeightVals == {F1}

\* the input and expected vectors of length n a caller passes
InputVecs(n) == {[k \in 1..n |-> F1], [k \in 1..n |-> IF k = 1 THEN F0 ELSE F1]}
ExpectedVecs(n) == {[k \in 1..n |-> IF k = 1 THEN F1 ELSE F0], [k \in 1..n |-> F0]}

\* TrainingExample::new
TrainingExample_new(inputs, expected) == [inputs |-> inputs, expected |-> expected]

\* the examples a caller trains a network of shape sh on
Examples(sh) ==
    {TrainingExample_new([k \in 1..sh[1] |-> F1],
                         [k \in 1..sh[Len(sh)] |-> IF k = 1 THEN F1 ELSE F0]),
     TrainingExample_new([k \in 1..sh[1] |-> IF k = 1 THEN F0 ELSE F1],
                         [k \in 1..sh[Len(sh)] |-> F0])}

\* the sequences over S of length at most n
SeqUpTo(S, n) == UNION {[1..k -> S] : k \in 0..n}

\* the work of passing a batch, and a list of batches
BatchWork(batch) == 1 + Len(batch)
RECURSIVE ListWork(_)
ListWork(batches) ==
    IF batches = << >> THEN 0 ELSE BatchWork(Head(batches)) + ListWork(Tail(batches))

\* the batches over the examples E, and the lists of such batches, that cost at
\* most w
BatchesWithin(E, w) == IF w < 1 THEN {} ELSE SeqUpTo(E, w - 1)
RECURSIVE ListsWithin(_, _)
ListsWithin(E, w) ==
    {<< >>} \cup UNION {{<<b>> \o r : r \in ListsWithin(E, w - BatchWork(b))} :
                          b \in BatchesWithin(E, w)}

-----------------------------------------------------------------------------
(* The program: one network and the calls a driver makes on it.  A call of *)
(* the training interface runs as the frames of `stack` (the last frame is *)
(* the running function); the driver makes its next call when the stack is *)
(* empty.                                                                  *)

VARIABLES
    nw,       \* the Network (the TrainingData, for the driver that chunks a batch)
    stack,    \* the frames of the call in progress
    log,      \* history: the calls made since the driver's call began
    sweep,    \* history: what the running train_on_current_data has done
    trained,  \* history: runs of train_on_current_data since the last clear
    work      \* history: the work of the run so far

vars == <<nw, stack, log, sweep, trained, work>>

Idle == stack = << >>
Top == stack[Len(stack)]
Pop == SubSeq(stack, 1, Len(stack) - 1)
\* the stack with its running frame replaced by f
Replace(f) == [stack EXCEPT ![Len(stack)] = f]
Running(fn) == stack # << >> /\ Top.fn = fn

NoSweep == [seeded |-> FALSE, visited |-> {}]

\* the frames of the functions of the training interface
Frame_train_on_batches(batches) ==
    [fn |-> "train_on_batches", args |-> batches, rest |-> batches]
Frame_train_on_batch(batch) ==
    [fn |-> "train_on_batch", args |-> batch, rest |-> batch, pc |-> "for_each"]
Frame_train_on_data(data) ==
    [fn |-> "train_on_data", data |-> data, pc |-> "set_inputs"]
Frame_train_on_current_data(expected) ==
    [fn |-> "train_on_current_data", expected |-> expected, pc |-> "request_nudges_end",
     todo |-> << >>]
Frame_apply_nudges(net) ==
    [fn |-> "apply_nudges", pc |-> "apply_nudges", todo |-> ForwardOrder(net)]

Init ==
    /\ \E config \in Configs : nw = with_config(config)
    /\ stack = << >>
    /\ log = << >>
    /\ sweep = NoSweep
    /\ trained = 0
    /\ work = 0

-----------------------------------------------------------------------------
(* network.rs: clear_nudges, and what the driver may pass *)

\* Network::clear_nudges
Network_clear_nudges(net) ==
    [net EXCEPT !.layers = [i \in 1..Len(net.layers) |->
                              IF i > 1
                              THEN [k \in 1..Len(net.layers[i]) |-> Node_clear_nudges(net.layers[i][k])]
                              ELSE net.layers[i]]]

RECURSIVE ApplyAll(_, _)
\* n.apply_nudges(); n.clear_nudges() on the nodes of order, one after the other
ApplyAll(net, order) ==
    IF order = << >> THEN net
    ELSE ApplyAll(put_node(net, Head(order)[1], Head(order)[2],
                           Node_clear_nudges(Node_apply_nudges(
                               get_node(net, Head(order)[1], Head(order)[2])))),
                  Tail(order))

\* a variant of Network::apply_nudges that invalidates the caches
Network_apply_nudges_invalidating(net) == Network_invalidate(ApplyAll(net, ForwardOrder(net)))

\* Network::apply_nudges
Network_apply_nudges(net) == ApplyAll(net, ForwardOrder(net))

RECURSIVE TrainAll(_, _)
\* batch.0.iter().for_each(|data| self.train_on_data(data))
TrainAll(net, batch) ==
    IF batch = << >> THEN net ELSE TrainAll(train_on_data(net, Head(batch)), Tail(batch))

\* Network::train_on_batch
train_on_batch(net, batch) == Network_apply_nudges(TrainAll(net, batch))

\* Node::set_weight through Network::get_main_node_mut
set_weight(net, li, ni, wi, v) ==
    put_node(net, li, ni, [get_node(net, li, ni) EXCEPT !.inp_w[wi + 1] = v])

\* the work left in the run
WorkLeft == MaxWork - work

\* the log when the frame f returns: the history is of one call of the driver
LogAtReturn == IF Len(stack) = 1 THEN << >> ELSE log

-----------------------------------------------------------------------------
(* The driver's calls of the evaluation and mutation interface: each runs  *)
(* to completion in one step.                                              *)

GetValue(li, ni) ==
    /\ Idle
    /\ WorkLeft >= 1
    /\ nw' = get_value(nw, li, ni).nw
    /\ work' = work + 1
    /\ UNCHANGED <<stack, log, sweep, trained>>

GetSum(li, ni) ==
    /\ Idle
    /\ WorkLeft >= 1
    /\ li >= 1
    /\ nw' = get_sum(nw, li, ni).nw
    /\ work' = work + 1
    /\ UNCHANGED <<stack, log, sweep, trained>>

GetOutput(i) ==
    /\ Idle
    /\ WorkLeft >= 1
    /\ nw' = get_output(nw, i).nw
    /\ work' = work + 1
    /\ UNCHANGED <<stack, log, sweep, trained>>

GetOutputs ==
    /\ Idle
    /\ WorkLeft >= 1
    /\ nw' = get_outputs(nw).nw
    /\ work' = work + 1
    /\ UNCHANGED <<stack, log, sweep, trained>>

GetCurrentCost(expected) ==
    /\ Idle
    /\ WorkLeft >= 1
    /\ Len(expected) = Len(last_layer(nw))
    /\ nw' = get_current_cost(nw, expected).nw
    /\ work' = work + 1
    /\ UNCHANGED <<stack, log, sweep, trained>>

Invalidate ==
    /\ Idle
    /\ WorkLeft >= 1
    /\ nw' = Network_invalidate(nw)
    /\ work' = work + 1
    /\ UNCHANGED <<stack, log, sweep, trained>>

NodeInvalidate(li, ni) ==
    /\ Idle
    /\ WorkLeft >= 1
    /\ nw' = put_node(nw, li, ni, Node_invalidate(get_node(nw, li, ni)))
    /\ work' = work + 1
    /\ UNCHANGED <<stack, log, sweep, trained>>

SetInput(i, value) ==
    /\ Idle
    /\ WorkLeft >= 1
    /\ nw' = set_input(nw, i, value)
    /\ work' = work + 1
    /\ UNCHANGED <<stack, log, sweep, trained>>

SetInputs(inputs) ==
    /\ Idle
    /\ WorkLeft >= 1
    /\ Len(inputs) = Len(get_layer(nw, 0))
    /\ nw' = set_inputs(nw, inputs)
    /\ work' = work + 1
    /\ UNCHANGED <<stack, log, sweep, trained>>

SetWeight(li, ni, wi, v) ==
    /\ Idle
    /\ WorkLeft >= 1
    /\ li >= 1
    /\ nw' = set_weight(nw, li, ni, wi, v)
    /\ work' = work + 1
    /\ UNCHANGED <<stack, log, sweep, trained>>

ClearNudges ==
    /\ Idle
    /\ WorkLeft >= 1
    /\ nw' = Network_clear_nudges(nw)
    /\ trained' = 0
    /\ work' = work + 1
    /\ UNCHANGED <<stack, log, sweep>>

-----------------------------------------------------------------------------
(* The driver's calls of the training interface: each pushes the frame of  *)
(* the function, which then runs step by step.                             *)

Call_train_on_batches(batches) ==
    /\ Idle
    /\ stack' = << Frame_train_on_batches(batches) >>
    /\ work' = work + ListWork(batches)
    /\ UNCHANGED <<nw, log, sweep, trained>>

Call_train_on_batch(batch) ==
    /\ Idle
    /\ stack' = << Frame_train_on_batch(batch) >>
    /\ work' = work + BatchWork(batch)
    /\ UNCHANGED <<nw, log, sweep, trained>>

Call_train_on_data(data) ==
    /\ Idle
    /\ WorkLeft >= 1
    /\ stack' = << Frame_train_on_data(data) >>
    /\ work' = work + 1
    /\ UNCHANGED <<nw, log, sweep, trained>>

Call_train_on_current_data(expected) ==
    /\ Idle
    /\ WorkLeft >= 1
    /\ Len(expected) = Len(last_layer(nw))
    /\ stack' = << Frame_train_on_current_data(expected) >>
    /\ work' = work + 1
    /\ UNCHANGED <<nw, log, sweep, trained>>

Call_apply_nudges ==
    /\ Idle
    /\ WorkLeft >= 1
    /\ stack' = << Frame_apply_nudges(nw) >>
    /\ log' = << <<"apply_nudges">> >>
    /\ work' = work + 1
    /\ UNCHANGED <<nw, sweep, trained>>

-----------------------------------------------------------------------------
(* The steps of the running function *)

\* Network::train_on_batches: the next batch
Step_train_on_batches ==
    /\ Running("train_on_batches")
    /\ Top.rest # << >>
    /\ stack' = Append(Replace([Top EXCEPT !.rest = Tail(Top.rest)]),
                       Frame_train_on_batch(Head(Top.rest)))
    /\ UNCHANGED <<nw, log, sweep, trained, work>>

Return_train_on_batches ==
    /\ Running("train_on_batches")
    /\ Top.rest = << >>
    /\ stack' = Pop
    /\ log' = LogAtReturn
    /\ UNCHANGED <<nw, sweep, trained, work>>

\* a variant of the for_each of train_on_batch that takes the last example first
Step_train_on_batch_last_first ==
    /\ Running("train_on_batch")
    /\ Top.pc = "for_each"
    /\ Top.rest # << >>
    /\ stack' = Append(Replace([Top EXCEPT !.rest = SubSeq(Top.rest, 1, Len(Top.rest) - 1)]),
                       Frame_train_on_data(Top.rest[Len(Top.rest)]))
    /\ log' = Append(log, <<"train_on_data", Top.rest[Len(Top.rest)]>>)
    /\ UNCHANGED <<nw, sweep, trained, work>>

\* Network::train_on_batch: the next example of batch.0.iter().for_each
Step_train_on_batch ==
    /\ Running("train_on_batch")
    /\ Top.pc = "for_each"
    /\ Top.rest # << >>
    /\ stack' = Append(Replace([Top EXCEPT !.rest = Tail(Top.rest)]),
                       Frame_train_on_data(Head(Top.rest)))
    /\ log' = Append(log, <<"train_on_data", Head(Top.rest)>>)
    /\ UNCHANGED <<nw, sweep, trained, work>>

\* a variant of train_on_batch that may apply before the examples are done
Apply_train_on_batch_early ==
    /\ Running("train_on_batch")
    /\ Top.pc = "for_each"
    /\ stack' = Append(Replace([Top EXCEPT !.pc = IF Top.rest = << >> THEN "ret" ELSE "for_each"]),
                       Frame_apply_nudges(nw))
    /\ log' = Append(log, <<"apply_nudges">>)
    /\ UNCHANGED <<nw, sweep, trained, work>>

\* Network::train_on_batch: self.apply_nudges() once the examples are done
Apply_train_on_batch ==
    /\ Running("train_on_batch")
    /\ Top.pc = "for_each"
    /\ Top.rest = << >>
    /\ stack' = Append(Replace([Top EXCEPT !.pc = "ret"]), Frame_apply_nudges(nw))
    /\ log' = Append(log, <<"apply_nudges">>)
    /\ UNCHANGED <<nw, sweep, trained, work>>

Return_train_on_batch ==
    /\ Running("train_on_batch")
    /\ Top.pc = "ret"
    /\ stack' = Pop
    /\ log' = LogAtReturn
    /\ UNCHANGED <<nw, sweep, trained, work>>

\* Network::train_on_data: self.set_inputs(&data.inputs)
SetInputs_train_on_data ==
    /\ Running("train_on_data")
    /\ Top.pc = "set_inputs"
    /\ Len(Top.data.inputs) = Len(get_layer(nw, 0))
    /\ nw' = set_inputs(nw, Top.data.inputs)
    /\ stack' = Replace([Top EXCEPT !.pc = "invalidate"])
    /\ UNCHANGED <<log, sweep, trained, work>>

\* a variant of train_on_data that leaves out self.invalidate()
Invalidate_train_on_data_left_out ==
    /\ Running("train_on_data")
    /\ Top.pc = "invalidate"
    /\ stack' = Replace([Top EXCEPT !.pc = "train_on_current_data"])
    /\ UNCHANGED <<nw, log, sweep, trained, work>>

\* Network::train_on_data: self.invalidate()
Invalidate_train_on_data ==
    /\ Running("train_on_data")
    /\ Top.pc = "invalidate"
    /\ nw' = Network_invalidate(nw)
    /\ stack' = Replace([Top EXCEPT !.pc = "train_on_current_data"])
    /\ UNCHANGED <<log, sweep, trained, work>>

\* Network::train_on_data: self.train_on_current_data(&data.expected)
Train_train_on_data ==
    /\ Running("train_on_data")
    /\ Top.pc = "train_on_current_data"
    /\ stack' = Append(Replace([Top EXCEPT !.pc = "ret"]),
                       Frame_train_on_current_data(Top.data.expected))
    /\ UNCHANGED <<nw, log, sweep, trained, work>>

Return_train_on_data ==
    /\ Running("train_on_data")
    /\ Top.pc = "ret"
    /\ stack' = Pop
    /\ log' = LogAtReturn
    /\ UNCHANGED <<nw, sweep, trained, work>>

\* Network::train_on_current_data: self.request_nudges_end(expected)
Step_request_nudges_end ==
    /\ Running("train_on_current_data")
    /\ Top.pc = "request_nudges_end"
    /\ nw' = request_nudges_end(nw, Top.expected)
    /\ stack' = Replace([Top EXCEPT !.pc = "calc_nudge", !.todo = SweepOrder(nw)])
    /\ sweep' = [seeded |-> TRUE, visited |-> {}]
    /\ UNCHANGED <<log, trained, work>>

\* Network::train_on_current_data: calc_nudge on the next node of the sweep
Step_calc_nudge ==
    /\ Running("train_on_current_data")
    /\ Top.pc = "calc_nudge"
    /\ Top.todo # << >>
    /\ nw' = calc_nudge(nw, Head(Top.todo)[1], Head(Top.todo)[2])
    /\ stack' = Replace([Top EXCEPT !.todo = Tail(Top.todo)])
    /\ sweep' = [sweep EXCEPT !.visited = sweep.visited \cup {Head(Top.todo)}]
    /\ UNCHANGED <<log, trained, work>>

Return_train_on_current_data ==
    /\ Running("train_on_current_data")
    /\ Top.pc = "calc_nudge"
    /\ Top.todo = << >>
    /\ stack' = Pop
    /\ log' = LogAtReturn
    /\ sweep' = NoSweep
    /\ trained' = trained + 1
    /\ UNCHANGED <<nw, work>>

\* Network::apply_nudges: n.apply_nudges() on the next node
Step_node_apply_nudges ==
    /\ Running("apply_nudges")
    /\ Top.pc = "apply_nudges"
    /\ Top.todo # << >>
    /\ LET li == Head(Top.todo)[1]
           ni == Head(Top.todo)[2]
       IN  nw' = put_node(nw, li, ni, Node_apply_nudges(get_node(nw, li, ni)))
    /\ stack' = Replace([Top EXCEPT !.pc = "clear_nudges"])
    /\ log' = Append(log, <<"Node::apply_nudges", Head(Top.todo)>>)
    /\ UNCHANGED <<sweep, trained, work>>

\* Network::apply_nudges: n.clear_nudges() on the same node
Step_node_clear_nudges ==
    /\ Running("apply_nudges")
    /\ Top.pc = "clear_nudges"
    /\ LET li == Head(Top.todo)[1]
           ni == Head(Top.todo)[2]
       IN  nw' = put_node(nw, li, ni, Node_clear_nudges(get_node(nw, li, ni)))
    /\ stack' = Replace([Top EXCEPT !.pc = "apply_nudges", !.todo = Tail(Top.todo)])
    /\ log' = Append(log, <<"Node::clear_nudges", Head(Top.todo)>>)
    /\ UNCHANGED <<sweep, trained, work>>

Return_apply_nudges ==
    /\ Running("apply_nudges")
    /\ Top.pc = "apply_nudges"
    /\ Top.todo = << >>
    /\ stack' = Pop
    /\ log' = LogAtReturn
    /\ trained' = 0
    /\ UNCHANGED <<nw, sweep, work>>

-----------------------------------------------------------------------------

Next ==
    \/ \E n \in ComputeNodes(nw) : GetValue(n[1], n[2])
    \/ \E i \in 0..(Len(get_layer(nw, 0)) - 1) : GetValue(0, i)
    \/ \E n \in ComputeNodes(nw) : GetSum(n[1], n[2])
    \/ \E i \in 0..(Len(last_layer(nw)) - 1) : GetOutput(i)
    \/ GetOutputs
    \/ \E e \in ExpectedVecs(Len(last_layer(nw))) : GetCurrentCost(e)
    \/ Invalidate
    \/ \E n \in ComputeNodes(nw) : NodeInvalidate(n[1], n[2])
    \/ \E i \in 0..(Len(get_layer(nw, 0)) - 1), v \in InputVals : SetInput(i, v)
    \/ \E inputs \in InputVecs(Len(get_layer(nw, 0))) : SetInputs(inputs)
    \/ \E n \in ComputeNodes(nw) :
          \E wi \in 0..(Len(get_node(nw, n[1], n[2]).inp_w) - 1), v \in WeightVals :
             SetWeight(n[1], n[2], wi, v)
    \/ ClearNudges
    \/ \E batches \in ListsWithin(Examples(nw.config.shape), WorkLeft) :
          Call_train_on_batches(batches)
    \/ \E batch \in BatchesWithin(Examples(nw.config.shape), WorkLeft) :
          Call_train_on_batch(batch)
    \/ \E data \in Examples(nw.config.shape) : Call_train_on_data(data)
    \/ \E e \in ExpectedVecs(Len(last_layer(nw))) : Call_train_on_current_data(e)
    \/ Call_apply_nudges
    \/ Step_train_on_batches
    \/ Return_train_on_batches
    \/ Step_train_on_batch
    \/ Apply_train_on_batch
    \/ Return_train_on_batch
    \/ SetInputs_train_on_data
    \/ Invalidate_train_on_data
    \/ Train_train_on_data
    \/ Return_train_on_data
    \/ Step_request_nudges_end
    \/ Step_calc_nudge
    \/ Return_train_on_current_data
    \/ Step_node_apply_nudges
    \/ Step_node_clear_nudges
    \/ Return_apply_nudges

Spec == Init /\ [][Next]_vars

-----------------------------------------------------------------------------
(* The calls that assert on their arguments, with the assertion: the       *)
(* outcome of a call is a return (the network as the call leaves it and    *)
(* the value returned) or a panic (the network as the panic leaves it and  *)
(* the message).                                                           *)

Return(net, val) == [panic |-> FALSE, nw |-> net, val |-> val]
PanicWith(net, msg) == [panic |-> TRUE, nw |-> net, msg |-> msg]
\* the return of a call that evaluates, r being its [nw, val]
ReturnOf(r) == Return(r.nw, r.val)

\* what a constructor that panicked leaves: no Network
NoNetwork == [config |-> "none"]

\* a variant of with_config that asserts config.shape.len() >= 1
try_with_config_at_least_1(config) ==
    IF Len(config.shape) >= 1
    THEN Return(with_config(config), << >>)
    ELSE PanicWith(NoNetwork, "network must have at least start and end layers!")

\* Network::with_config with its assert!(config.shape.len() >= 2, ..)
try_with_config(config) ==
    IF Len(config.shape) >= 2
    THEN Return(with_config(config), << >>)
    ELSE PanicWith(NoNetwork, "network must have at least start and end layers!")

\* Network::new
try_new(shape) == try_with_config([learning_rate |-> DefaultLearningRate, shape |-> shape])

\* a variant of set_inputs that writes what it can before it asserts
try_set_inputs_write_first(net, inputs) ==
    IF Len(inputs) = Len(net.layers[1])
    THEN Return(set_inputs(net, inputs), << >>)
    ELSE PanicWith([net EXCEPT !.layers[1] =
                       [k \in 1..Len(net.layers[1]) |->
                          IF k <= Len(inputs)
                          THEN [net.layers[1][k] EXCEPT !.value = inputs[k]]
                          ELSE net.layers[1][k]]],
                   "number of inputs must match number of nodes in layer 0")

\* Network::set_inputs with its assert_eq!(inputs.len(), self.layers[0].len(), ..)
try_set_inputs(net, inputs) ==
    IF Len(inputs) = Len(net.layers[1])
    THEN Return(set_inputs(net, inputs), << >>)
    ELSE PanicWith(net, "number of inputs must match number of nodes in layer 0")

\* a variant of get_current_cost that evaluates the outputs before it asserts
try_get_current_cost_late_assert(net, expected) ==
    IF Len(last_layer(net)) = Len(expected)
    THEN ReturnOf(get_current_cost(net, expected))
    ELSE PanicWith(get_outputs(net).nw, "Length of expected must match length of output")

\* Network::get_current_cost with its
\* assert_eq!(self.last_layer().len(), expected.len(), ..)
try_get_current_cost(net, expected) ==
    IF Len(last_layer(net)) = Len(expected)
    THEN ReturnOf(get_current_cost(net, expected))
    ELSE PanicWith(net, "Length of expected must match length of output")

\* a direct write of the pub field Node::bias
set_bias(net, li, ni, v) ==
    put_node(net, li, ni, [get_node(net, li, ni) EXCEPT !.bias = v])

-----------------------------------------------------------------------------
(* network.rs, node.rs: indexing.  An index into a Vec at or beyond its    *)
(* length panics; unwrap() of None panics.                                 *)

OutOfBounds == "index out of bounds"
UnwrapNone == "called Option::unwrap() on a None value"

\* a variant of the downcast that succeeds for every node
try_into_ref_unchecked(node, T) == Some(node)

\* TryIntoRef for dyn NodeLike: the downcast of a node to the type T
try_into_ref(node, T) == IF node.type = T THEN Some(node) ELSE None

\* Network::get_layer: &self.layers[i]
try_get_layer(net, li) ==
    IF li < Len(net.layers)
    THEN Return(net, get_layer(net, li))
    ELSE PanicWith(net, OutOfBounds)

\* a variant of get_node that takes the last node for an index beyond the layer
try_get_node_clamped(net, li, ni) ==
    IF li >= Len(net.layers)
    THEN PanicWith(net, OutOfBounds)
    ELSE IF ni >= Len(net.layers[li + 1])
    THEN Return(net, net.layers[li + 1][Len(net.layers[li + 1])])
    ELSE Return(net, get_node(net, li, ni))

\* Network::get_node / get_node_mut: &self.layers[li][ni]
try_get_node(net, li, ni) ==
    IF li >= Len(net.layers)
    THEN PanicWith(net, OutOfBounds)
    ELSE IF ni >= Len(net.layers[li + 1])
    THEN PanicWith(net, OutOfBounds)
    ELSE Return(net, get_node(net, li, ni))

\* Network::get_node_as / get_node_as_mut
try_get_node_as(net, li, ni, T) ==
    IF try_get_node(net, li, ni).panic
    THEN try_get_node(net, li, ni)
    ELSE Return(net, try_into_ref(try_get_node(net, li, ni).val, T))

\* Option::unwrap of the outcome of get_node_as
UnwrapOutcome(out) ==
    IF out.panic THEN out
    ELSE IF out.val = None THEN PanicWith(out.nw, UnwrapNone)
    ELSE Return(out.nw, Unwrap(out.val))

\* Network::get_start_node / get_start_node_mut
try_get_start_node(net, ni) == UnwrapOutcome(try_get_node_as(net, 0, ni, "StartNode"))

\* Network::get_main_node / get_main_node_mut with their assert_ne!(li, 0, ..)
try_get_main_node(net, li, ni) ==
    IF li = 0
    THEN PanicWith(net, "no main nodes in layer 0")
    ELSE UnwrapOutcome(try_get_node_as(net, li, ni, "Node"))

\* Network::get_output: self.last_layer()[i].get_value(&self)
try_get_output(net, i) ==
    IF i < Len(last_layer(net))
    THEN ReturnOf(get_output(net, i))
    ELSE PanicWith(net, OutOfBounds)

\* Network::set_input: self.get_start_node_mut(i).set_value(value)
try_set_input(net, i, value) ==
    IF try_get_start_node(net, i).panic
    THEN try_get_start_node(net, i)
    ELSE Return(set_input(net, i, value), << >>)

\* Node::get_weight of the node that get_main_node gives: self.inp_w[wi]
try_get_weight(net, li, ni, wi) ==
    IF try_get_main_node(net, li, ni).panic
    THEN try_get_main_node(net, li, ni)
    ELSE IF wi >= Len(try_get_main_node(net, li, ni).val.inp_w)
    THEN PanicWith(net, OutOfBounds)
    ELSE Return(net, try_get_main_node(net, li, ni).val.inp_w[wi + 1])

\* Node::set_weight of the node that get_main_node_mut gives: self.inp_w[wi] = v
try_set_weight(net, li, ni, wi, v) ==
    IF try_get_weight(net, li, ni, wi).panic
    THEN try_get_weight(net, li, ni, wi)
    ELSE Return(set_weight(net, li, ni, wi, v), << >>)

-----------------------------------------------------------------------------
(* A second program: a driver that constructs a network from any shape and *)
(* makes single calls with arguments of any length.  Each call runs to     *)
(* completion in one step; log holds the last call, its arguments and its  *)
(* result; a panic ends the program, its frame staying on the stack.       *)

\* the calls of a run
MaxCalls == 3

\* the shapes and learning rates a driver constructs from
ApiShapes == {<< >>, <<2>>, <<1, 1>>, <<2, 1>>, <<1, 1, 2>>, <<2, 2, 1>>}
ApiRates == {FMul(F2, F2)}

\* the lengths next to n
Near(n) == {k \in {n - 1, n, n + 1} : k >= 0}

\* the frame a panic leaves
Frame_panic(msg) == [fn |-> "panic", msg |-> msg]
Panicked == stack # << >> /\ Top.fn = "panic"

\* the run has a network: its constructor returned
HasNetwork == nw # NoNetwork

\* what log holds of an outcome
ResultOf(out) == IF out.panic THEN <<"panic", out.msg>> ELSE <<"return", out.val>>

\* the state a constructor call leaves
Constructed(name, arg, out) ==
    /\ nw = out.nw
    /\ stack = IF out.panic THEN << Frame_panic(out.msg) >> ELSE << >>
    /\ log = << <<name, arg, ResultOf(out)>> >>
    /\ sweep = NoSweep
    /\ trained = 0
    /\ work = 0

ApiInit ==
    \E shape \in ApiShapes, rate \in ApiRates :
        \/ Constructed("new", shape, try_new(shape))
        \/ Constructed("with_config", [learning_rate |-> rate, shape |-> shape],
                       try_with_config([learning_rate |-> rate, shape |-> shape]))

\* one call of the driver, with the outcome out
ApiCall(name, args, out) ==
    /\ Idle
    /\ work < MaxCalls
    /\ nw' = out.nw
    /\ stack' = IF out.panic THEN << Frame_panic(out.msg) >> ELSE << >>
    /\ log' = << <<name, args, ResultOf(out)>> >>
    /\ work' = work + 1
    /\ UNCHANGED <<sweep, trained>>

Api_set_inputs(inputs) == ApiCall("set_inputs", <<inputs>>, try_set_inputs(nw, inputs))

Api_get_current_cost(expected) ==
    ApiCall("get_current_cost", <<expected>>, try_get_current_cost(nw, expected))

Api_set_input(i, value) ==
    ApiCall("set_input", <<i, value>>, try_set_input(nw, i, value))

Api_set_weight(li, ni, wi, v) ==
    ApiCall("set_weight", <<li, ni, wi, v>>, try_set_weight(nw, li, ni, wi, v))

Api_set_bias(li, ni, v) ==
    ApiCall("set_bias", <<li, ni, v>>, Return(set_bias(nw, li, ni, v), << >>))

Api_get_value(li, ni) == ApiCall("get_value", <<li, ni>>, ReturnOf(get_value(nw, li, ni)))

Api_invalidate == ApiCall("invalidate", << >>, Return(Network_invalidate(nw), << >>))

Api_node_invalidate(li, ni) ==
    ApiCall("Node::invalidate", <<li, ni>>,
            Return(put_node(nw, li, ni, Node_invalidate(get_node(nw, li, ni))), << >>))

\* Node::new: the node it returns is the driver's, the network is as it was
Api_Node_new(bias, inp_w, layer) ==
    ApiCall("Node::new", <<bias, inp_w, layer>>, Return(nw, Node_new(bias, inp_w, layer)))

\* Network::train_on_batch as one call
Api_train_on_batch(batch) ==
    ApiCall("train_on_batch", <<batch>>, Return(train_on_batch(nw, batch), << >>))

\* Node::get_sum on the node that get_main_node gives
Api_get_sum(li, ni) == ApiCall("get_sum", <<li, ni>>, ReturnOf(get_sum(nw, li, ni)))

\* Node::request_nudge on the node that get_main_node gives
Api_request_nudge(li, ni, nudge) ==
    ApiCall("request_nudge", <<li, ni, nudge>>,
            Return(put_node(nw, li, ni, request_nudge(get_node(nw, li, ni), nudge)), << >>))

\* Network::apply_nudges and Network::clear_nudges as one call each
Api_apply_nudges == ApiCall("apply_nudges", << >>, Return(Network_apply_nudges(nw), << >>))
Api_clear_nudges == ApiCall("clear_nudges", << >>, Return(Network_clear_nudges(nw), << >>))

\* the accessors: name is the function or its _mut twin
Api_get_layer(li) == ApiCall("get_layer", <<li>>, try_get_layer(nw, li))
Api_get_node(name, li, ni) == ApiCall(name, <<li, ni>>, try_get_node(nw, li, ni))
Api_get_node_as(name, li, ni, T) == ApiCall(name, <<li, ni, T>>, try_get_node_as(nw, li, ni, T))
Api_get_start_node(name, ni) == ApiCall(name, <<ni>>, try_get_start_node(nw, ni))
Api_get_main_node(name, li, ni) == ApiCall(name, <<li, ni>>, try_get_main_node(nw, li, ni))
Api_get_output(i) == ApiCall("get_output", <<i>>, try_get_output(nw, i))
Api_get_weight(li, ni, wi) == ApiCall("get_weight", <<li, ni, wi>>, try_get_weight(nw, li, ni, wi))

\* the indices a driver passes for a Vec of length n: every index of the Vec
\* and the first one beyond it
Indices(n) == 0..n

\* the node indices a driver passes for layer li, which may be beyond the layers
NodeIndices(net, li) ==
    IF li < Len(net.layers) THEN Indices(Len(net.layers[li + 1])) ELSE Indices(1)

\* the weight indices a driver passes for node (li, ni)
WeightIndicesAt(net, li, ni) ==
    IF li >= 1 /\ li < Len(net.layers) /\ ni < Len(net.layers[li + 1])
    THEN Indices(Len(get_node(net, li, ni).inp_w))
    ELSE Indices(0)

\* the node types
NodeTypes == {"StartNode", "Node"}

\* the driver's choice of arguments for the calls that take indices
Drive_set_input ==
    /\ Idle
    /\ \E i \in Indices(Len(get_layer(nw, 0))), v \in InputVals : Api_set_input(i, v)

Drive_set_weight ==
    /\ Idle
    /\ \E li \in 1..n_layers(nw) : \E ni \in NodeIndices(nw, li) :
          \E wi \in WeightIndicesAt(nw, li, ni), v \in WeightVals :
             Api_set_weight(li, ni, wi, v)

Drive_get_weight ==
    /\ Idle
    /\ \E li \in 1..n_layers(nw) : \E ni \in NodeIndices(nw, li) :
          \E wi \in WeightIndicesAt(nw, li, ni) : Api_get_weight(li, ni, wi)

Drive_get_layer ==
    /\ Idle
    /\ \E li \in Indices(n_layers(nw)) : Api_get_layer(li)

Drive_get_node ==
    /\ Idle
    /\ \E name \in {"get_node", "get_node_mut"}, li \in Indices(n_layers(nw)) :
          \E ni \in NodeIndices(nw, li) : Api_get_node(name, li, ni)

Drive_get_node_as ==
    /\ Idle
    /\ \E name \in {"get_node_as", "get_node_as_mut"}, li \in Indices(n_layers(nw)) :
          \E ni \in NodeIndices(nw, li), T \in NodeTypes : Api_get_node_as(name, li, ni, T)

Drive_get_start_node ==
    /\ Idle
    /\ \E name \in {"get_start_node", "get_start_node_mut"} :
          \E ni \in NodeIndices(nw, 0) : Api_get_start_node(name, ni)

Drive_get_main_node ==
    /\ Idle
    /\ \E name \in {"get_main_node", "get_main_node_mut"}, li \in Indices(n_layers(nw)) :
          \E ni \in NodeIndices(nw, li) : Api_get_main_node(name, li, ni)

Drive_get_output ==
    /\ Idle
    /\ \E i \in Indices(Len(last_layer(nw))) : Api_get_output(i)

\* the batches a driver trains on: one or two examples
Drive_train_on_batch ==
    /\ Idle
    /\ \E batch \in SeqUpTo(Examples(nw.config.shape), 2) \ {<< >>} : Api_train_on_batch(batch)

\* the calls on the nodes and on the whole network
Drive_set_inputs ==
    /\ Idle
    /\ \E n \in Near(Len(get_layer(nw, 0))) : \E inputs \in InputVecs(n) : Api_set_inputs(inputs)

Drive_get_value ==
    /\ Idle
    /\ \E n \in ComputeNodes(nw) : Api_get_value(n[1], n[2])

Drive_get_sum ==
    /\ Idle
    /\ \E n \in ComputeNodes(nw) : Api_get_sum(n[1], n[2])

Drive_node_invalidate ==
    /\ Idle
    /\ \E n \in ComputeNodes(nw) : Api_node_invalidate(n[1], n[2])

Drive_request_nudge ==
    /\ Idle
    /\ \E n \in ComputeNodes(nw), v \in WeightVals : Api_request_nudge(n[1], n[2], v)

ApiNext ==
    \/ Drive_set_inputs
    \/ /\ Idle
       /\ \E n \in Near(Len(last_layer(nw))) : \E e \in ExpectedVecs(n) : Api_get_current_cost(e)
    \/ Drive_set_input
    \/ Drive_set_weight
    \/ /\ Idle
       /\ \E n \in ComputeNodes(nw), v \in WeightVals : Api_set_bias(n[1], n[2], v)
    \/ Drive_get_value
    \/ Api_invalidate
    \/ Drive_node_invalidate
    \/ /\ Idle
       /\ \E layer \in 1..(n_layers(nw) - 1) :
             \E n \in Near(Len(get_layer(nw, layer - 1))) : Api_Node_new(F0, VecOf(F0, n), layer)

ApiSpec == ApiInit /\ [][ApiNext]_vars

\* a driver that constructs a network and reads and writes it by index
AccessNext ==
    \/ Drive_set_input
    \/ Drive_set_weight
    \/ Drive_get_weight
    \/ Drive_get_layer
    \/ Drive_get_node
    \/ Drive_get_node_as
    \/ Drive_get_start_node
    \/ Drive_get_main_node
    \/ Drive_get_output

AccessSpec == ApiInit /\ [][AccessNext]_vars

\* a driver that constructs a network and evaluates, invalidates, sets inputs
\* and requests, applies and clears nudges
CacheNext ==
    \/ Drive_get_value
    \/ Drive_get_sum
    \/ Api_invalidate
    \/ Drive_node_invalidate
    \/ Drive_set_input
    \/ Drive_set_inputs
    \/ Drive_request_nudge
    \/ Api_apply_nudges
    \/ Api_clear_nudges

CacheSpec == ApiInit /\ [][CacheNext]_vars

\* a driver that constructs a network, sets weights and trains on batches
BatchNext ==
    \/ Drive_set_weight
    \/ Drive_train_on_batch

BatchSpec == ApiInit /\ [][BatchNext]_vars


-----------------------------------------------------------------------------
(* What the claims speak of *)

\* the compute node at position n = <<layer, index>> of net
NodeAt(net, n) == get_node(net, n[1], n[2])

\* the weights of a node as a sequence of positions
WeightIndices(node) == 1..Len(node.inp_w)

\* the learnable parameters of net: bias and weights of every compute node
Params(net) ==
    [n \in ComputeNodes(net) |-> [bias |-> NodeAt(net, n).bias, inp_w |-> NodeAt(net, n).inp_w]]

\* the accumulators of node are all zero
Zeroed(node) ==
    /\ node.nudge_cnt = 0
    /\ node.bias_nudge_sum = F0
    /\ node.requested_nudge = F0
    /\ \A i \in WeightIndices(node) : node.inp_w_nudge_sum[i] = F0

\* some frame of the stack runs fn
InCall(fn) == \E k \in 1..Len(stack) : stack[k].fn = fn

-----------------------------------------------------------------------------
\* C1: in every reachable state and for every compute node, a set
\* result_cache means that sum_cache is set too and that the cached output is
\* the sigmoid of the cached sum; "only the sum is cached" and "nothing is
\* cached" are the other two states (a NaN is compared as the stored value).
CacheConsistent ==
    \A n \in ComputeNodes(nw) :
        LET node == NodeAt(nw, n)
        IN  IsSome(node.result_cache) =>
               /\ IsSome(node.sum_cache)
               /\ Unwrap(node.result_cache) = Sigmoid(Unwrap(node.sum_cache))

\* a node holds both caches while another node holds the sum only, and
\* the cached sum of the first is no longer what its inputs give
CacheConsistent_witness ==
    \E n, m \in ComputeNodes(nw) :
        /\ IsSome(NodeAt(nw, n).result_cache)
        /\ Unwrap(NodeAt(nw, n).sum_cache) # get_sum(Network_invalidate(nw), n[1], n[2]).val
        /\ Unwrap(NodeAt(nw, n).sum_cache) # F0
        /\ ~IsSome(NodeAt(nw, m).result_cache)
        /\ IsSome(NodeAt(nw, m).sum_cache)

-----------------------------------------------------------------------------
\* the gradient contribution of the example ex to the accumulators of net:
\* what train_on_data leaves in accumulators that were zero
Contribution(net, ex) == train_on_data(Network_clear_nudges(net), ex)

RECURSIVE SumBias(_, _, _)
SumBias(net, batch, n) ==
    IF batch = << >> THEN F0
    ELSE FAdd(NodeAt(Contribution(net, Head(batch)), n).bias_nudge_sum,
              SumBias(net, Tail(batch), n))

RECURSIVE SumWeight(_, _, _, _)
SumWeight(net, batch, n, i) ==
    IF batch = << >> THEN F0
    ELSE FAdd(NodeAt(Contribution(net, Head(batch)), n).inp_w_nudge_sum[i],
              SumWeight(net, Tail(batch), n, i))

\* train_on_batch has run all its examples, on accumulators that were zero
\* when it began, and is about to apply
BatchAccumulated ==
    /\ Running("train_on_batch")
    /\ Top.pc = "for_each"
    /\ Top.rest = << >>
    /\ trained = Len(Top.args)

\* C2: when a batch that began with zeroed accumulators has run its examples,
\* every weight and bias accumulator is the sum over the examples of the
\* example's own gradient contribution.
GradientAccumulationLaw ==
    BatchAccumulated =>
        \A n \in ComputeNodes(nw) :
            /\ NodeAt(nw, n).bias_nudge_sum = SumBias(nw, Top.args, n)
            /\ \A i \in WeightIndices(NodeAt(nw, n)) :
                  NodeAt(nw, n).inp_w_nudge_sum[i] = SumWeight(nw, Top.args, n, i)

-----------------------------------------------------------------------------
\* Network::apply_nudges has run to its end, or train_on_batch has
AfterApply ==
    \/ Running("apply_nudges") /\ Top.pc = "apply_nudges" /\ Top.todo = << >>
    \/ Running("train_on_batch") /\ Top.pc = "ret"

\* C3: after construction, after Network::apply_nudges and after
\* train_on_batch every compute node has example_count 0, zero weight and
\* bias accumulators and a zero pending_nudge.
PostApplyReset ==
    (work = 0 \/ AfterApply) => \A n \in ComputeNodes(nw) : Zeroed(NodeAt(nw, n))

\* train_on_batch returns from an apply that found two examples accumulated
\* and moved a bias
PostApplyReset_witness ==
    /\ Running("train_on_batch")
    /\ Top.pc = "ret"
    /\ Len(Top.args) = 2
    /\ \E n \in ComputeNodes(nw) : NodeAt(nw, n).bias # F0 /\ IsFinite(NodeAt(nw, n).bias)

-----------------------------------------------------------------------------
\* C4: no bias and no weight of the network is ever NaN or infinite: applying
\* with an example_count of 0 is guarded and changes no parameter.
ParamsFinite ==
    \A n \in ComputeNodes(nw) :
        /\ IsFinite(NodeAt(nw, n).bias)
        /\ \A i \in WeightIndices(NodeAt(nw, n)) : IsFinite(NodeAt(nw, n).inp_w[i])

-----------------------------------------------------------------------------
\* the running train_on_current_data is about to call calc_nudge on a node
AtCalcNudge ==
    /\ Running("train_on_current_data")
    /\ Top.pc = "calc_nudge"
    /\ Top.todo # << >>

\* C5: whenever calc_nudge runs on a node, request_nudges_end has seeded the
\* output layer, the node is no input node, calc_nudge has already run in this
\* sweep on every node of the later layers, and the step leaves the
\* pending_nudge of the nodes processed before as it read it.
SweepIsReverseTopological ==
    [][AtCalcNudge =>
         LET c == Head(Top.todo)
         IN  /\ sweep.seeded
             /\ c[1] >= 1
             /\ \A v \in sweep.visited : v[1] >= 1
             /\ \A m \in ComputeNodes(nw) : m[1] > c[1] => m \in sweep.visited
             /\ \A v \in sweep.visited \cup {c} :
                   NodeAt(nw', v).requested_nudge = NodeAt(nw, v).requested_nudge]_vars

\* calc_nudge is about to run on a hidden node whose pending_nudge the
\* output layer has filled
SweepIsReverseTopological_witness ==
    /\ AtCalcNudge
    /\ Head(Top.todo)[1] = 1
    /\ n_layers(nw) = 3
    /\ NodeAt(nw, Head(Top.todo)).requested_nudge # F0

-----------------------------------------------------------------------------
\* an example is still to come or in progress: the accumulation phase
AccumulationPhase ==
    \E k \in 1..Len(stack) :
        \/ stack[k].fn \in {"train_on_data", "train_on_current_data"}
        \/ stack[k].fn = "train_on_batch" /\ stack[k].rest # << >>

\* C6: a step of the accumulation phase leaves every bias and weight as it
\* was, and within a training call only a step of Node::apply_nudges, in the
\* apply phase of Network::apply_nudges, changes a bias or a weight.
TwoPhaseTraining ==
    [][/\ AccumulationPhase => Params(nw') = Params(nw)
       /\ (~Idle /\ Params(nw') # Params(nw)) =>
             Running("apply_nudges") /\ Top.pc = "apply_nudges" /\ Top.todo # << >>]_vars

\* the second example of a batch is in its sweep with non-zero accumulators
\* waiting
TwoPhaseTraining_witness ==
    /\ AtCalcNudge
    /\ InCall("train_on_batch")
    /\ trained = 1
    /\ \E n \in ComputeNodes(nw) : NodeAt(nw, n).bias_nudge_sum # F0

-----------------------------------------------------------------------------
\* the calls train_on_batch makes on the batch, in order, on the network net:
\* train_on_data per example, then one apply_nudges, which applies and then
\* clears every compute node
RECURSIVE ExampleCalls(_)
ExampleCalls(batch) ==
    IF batch = << >> THEN << >>
    ELSE << <<"train_on_data", Head(batch)>> >> \o ExampleCalls(Tail(batch))

RECURSIVE NodeCalls(_)
NodeCalls(order) ==
    IF order = << >> THEN << >>
    ELSE << <<"Node::apply_nudges", Head(order)>>, <<"Node::clear_nudges", Head(order)>> >>
         \o NodeCalls(Tail(order))

BatchCalls(net, batch) ==
    ExampleCalls(batch) \o << <<"apply_nudges">> >> \o NodeCalls(ForwardOrder(net))

RECURSIVE BatchesCalls(_, _)
BatchesCalls(net, batches) ==
    IF batches = << >> THEN << >>
    ELSE BatchCalls(net, Head(batches)) \o BatchesCalls(net, Tail(batches))

\* C7: when train_on_batch returns it has made exactly the calls train_on_data
\* on each example in order and then one apply_nudges; when train_on_batches
\* returns it has done so for each batch in order.
BatchProtocol ==
    /\ (Len(stack) = 1 /\ Running("train_on_batch") /\ Top.pc = "ret") =>
          log = BatchCalls(nw, Top.args)
    /\ (Len(stack) = 1 /\ Running("train_on_batches") /\ Top.rest = << >>) =>
          log = BatchesCalls(nw, Top.args)

\* train_on_batches returns from a list of two batches that held two
\* different examples
BatchProtocol_witness ==
    /\ Len(stack) = 1
    /\ Running("train_on_batches")
    /\ Top.rest = << >>
    /\ Len(Top.args) = 2
    /\ \E a, b \in 1..Len(log) :
          /\ a < b
          /\ log[a][1] = "train_on_data"
          /\ log[b][1] = "train_on_data"
          /\ log[a][2] # log[b][2]

-----------------------------------------------------------------------------
\* no sweep and no apply is part-way: the network is between examples
BetweenExamples == ~InCall("train_on_current_data") /\ ~InCall("apply_nudges")

\* C8: between examples, when train_on_data or train_on_current_data has run
\* k times since the accumulators were last cleared or the network was
\* built, every compute node has nudge_cnt = k, so all share one count.
NudgeCountIsExampleCount ==
    BetweenExamples => \A n \in ComputeNodes(nw) : NodeAt(nw, n).nudge_cnt = trained

\* two examples have been accumulated on a network with a hidden layer
NudgeCountIsExampleCount_witness ==
    /\ BetweenExamples
    /\ trained = 2
    /\ n_layers(nw) = 3
    /\ \A n \in ComputeNodes(nw) : NodeAt(nw, n).nudge_cnt = 2

-----------------------------------------------------------------------------
\* Network::apply_nudges is about to apply a node that counts k > 0 examples
AtNodeApply ==
    /\ Running("apply_nudges")
    /\ Top.pc = "apply_nudges"
    /\ Top.todo # << >>
    /\ NodeAt(nw, Head(Top.todo)).nudge_cnt > 0

\* the quotient sum / k, and the product of sum and the reciprocal of k
MeanByDivision(sum, k) == FDiv(sum, FromUsize(k))
MeanByReciprocal(sum, k) == FMul(sum, FDiv(F1, FromUsize(k)))

\* the apply step adds Mean(sum, k) to the bias and to every weight of the
\* node and changes nothing else of the network
ApplyStepAdds(Mean(_, _)) ==
    AtNodeApply =>
        LET c == Head(Top.todo)
            old == NodeAt(nw, c)
        IN  /\ NodeAt(nw', c) =
                  [old EXCEPT !.bias = FAdd(old.bias, Mean(old.bias_nudge_sum, old.nudge_cnt)),
                              !.inp_w = [i \in WeightIndices(old) |->
                                           FAdd(old.inp_w[i],
                                                Mean(old.inp_w_nudge_sum[i], old.nudge_cnt))]]
            /\ \A m \in ComputeNodes(nw) \ {c} : NodeAt(nw', m) = NodeAt(nw, m)
            /\ nw'.layers[1] = nw.layers[1]
            /\ nw'.config = nw.config

-----------------------------------------------------------------------------
\* the nodes of net, input nodes included
AllNodes(net) ==
    UNION {{<<li, ni>> : ni \in 0..(Len(get_layer(net, li)) - 1)} : li \in 0..(n_layers(net) - 1)}

\* C10: in every reachable state and for every node, a second get_value
\* returns the value of the first and leaves the network, every cache
\* included, as the first left it; on a node whose result_cache is set,
\* get_value returns the cached value and changes nothing.
GetValueIdempotent ==
    \A n \in AllNodes(nw) :
        LET r1 == get_value(nw, n[1], n[2])
            r2 == get_value(r1.nw, n[1], n[2])
        IN  /\ r2.val = r1.val
            /\ r2.nw = r1.nw
            /\ (n[1] >= 1 /\ IsSome(NodeAt(nw, n).result_cache)) =>
                  /\ r1.val = Unwrap(NodeAt(nw, n).result_cache)
                  /\ r1.nw = nw

\* a node holds a cached value that its inputs no longer give
GetValueIdempotent_witness ==
    \E n \in ComputeNodes(nw) :
        /\ IsSome(NodeAt(nw, n).result_cache)
        /\ Unwrap(NodeAt(nw, n).result_cache) # get_value(Network_invalidate(nw), n[1], n[2]).val
        /\ get_value(nw, n[1], n[2]).val = Unwrap(NodeAt(nw, n).result_cache)

-----------------------------------------------------------------------------
\* the sum the weights and bias of node n give on the values get_value
\* returns for the previous layer, from weight position i on
RECURSIVE WeightedSumFrom(_, _, _)
WeightedSumFrom(net, n, i) ==
    IF i > Len(NodeAt(net, n).inp_w)
    THEN NodeAt(net, n).bias
    ELSE FAdd(FMul(get_value(net, n[1] - 1, i - 1).val, NodeAt(net, n).inp_w[i]),
              WeightedSumFrom(net, n, i + 1))

WeightedSum(net, n) == WeightedSumFrom(net, n, 1)

\* node n caches no sum, or the sum its weights, bias and inputs give now
CacheCurrent(net, n) ==
    IsSome(NodeAt(net, n).sum_cache) =>
        Unwrap(NodeAt(net, n).sum_cache) = WeightedSum(net, n)

\* net after invalidate() on node n
InvalidateNode(net, n) == put_node(net, n[1], n[2], Node_invalidate(NodeAt(net, n)))

\* first being what get_value on n returned and left: invalidate() on n and
\* then get_value on n returns the value of first
RereadSame(first, n) ==
    get_value(InvalidateNode(first.nw, n), n[1], n[2]).val = first.val

\* the same, and invalidate unsets both caches of n and the second get_value
\* computes the sigmoid of the weighted sum and caches it
RereadRecomputes(first, n) ==
    /\ RereadSame(first, n)
    /\ NodeAt(InvalidateNode(first.nw, n), n).sum_cache = None
    /\ NodeAt(InvalidateNode(first.nw, n), n).result_cache = None
    /\ get_value(InvalidateNode(first.nw, n), n[1], n[2]).val = Sigmoid(WeightedSum(first.nw, n))
    /\ NodeAt(get_value(InvalidateNode(first.nw, n), n[1], n[2]).nw, n).result_cache =
          Some(first.val)

\* C11 as stated: in every reachable state and for every compute node,
\* get_value, invalidate and get_value again, with no change in between, give
\* the same value twice.
InvalidateThenSameValue ==
    HasNetwork => \A n \in ComputeNodes(nw) : RereadSame(get_value(nw, n[1], n[2]), n)

\* C11: in every reachable state and for every compute node whose cached sum,
\* if it has one, is what its weights, bias and inputs give now (nothing was
\* changed since it was cached), get_value, invalidate and get_value again
\* give the same value twice, and the second is recomputed.
InvalidateThenRecompute ==
    HasNetwork =>
        \A n \in ComputeNodes(nw) :
            CacheCurrent(nw, n) => RereadRecomputes(get_value(nw, n[1], n[2]), n)

\* a node caches a value that its non-zero bias and weights give now
InvalidateThenRecompute_witness ==
    HasNetwork /\ \E n \in ComputeNodes(nw) :
        /\ IsSome(NodeAt(nw, n).result_cache)
        /\ CacheCurrent(nw, n)
        /\ NodeAt(nw, n).bias # F0
        /\ IsFinite(NodeAt(nw, n).bias)
        /\ Unwrap(NodeAt(nw, n).sum_cache) # NodeAt(nw, n).bias

-----------------------------------------------------------------------------
\* train_on_data is about to call self.invalidate()
AtInvalidate == Running("train_on_data") /\ Top.pc = "invalidate"

\* node with the caches of the node from
WithCachesOf(node, from) ==
    [node EXCEPT !.sum_cache = from.sum_cache, !.result_cache = from.result_cache]

\* C12: a step of Network::invalidate leaves both caches of every compute
\* node unset, whatever they held, and everything else as it was: the input
\* nodes, the config and, of every compute node, bias, weights, layer and
\* accumulators.
InvalidateClearsOnlyCaches ==
    [][AtInvalidate =>
         /\ \A n \in ComputeNodes(nw) :
               /\ NodeAt(nw', n).sum_cache = None
               /\ NodeAt(nw', n).result_cache = None
               /\ WithCachesOf(NodeAt(nw', n), NodeAt(nw, n)) = NodeAt(nw, n)
         /\ ComputeNodes(nw') = ComputeNodes(nw)
         /\ nw'.layers[1] = nw.layers[1]
         /\ nw'.config = nw.config]_vars

\* the invalidate of the second example of a batch finds cached values of
\* the first example and non-zero accumulators
InvalidateClearsOnlyCaches_witness ==
    /\ AtInvalidate
    /\ trained >= 1
    /\ \E n \in ComputeNodes(nw) :
          /\ IsSome(NodeAt(nw, n).result_cache)
          /\ NodeAt(nw, n).bias_nudge_sum # F0
    /\ \E i \in 1..Len(nw.layers[1]) : nw.layers[1][i].value # F0

-----------------------------------------------------------------------------
\* the calls that write an input, a weight or a bias
Mutators == {"set_input", "set_inputs", "set_weight", "set_bias"}

\* the step is a call of a mutator
MutatorStep == work' = work + 1 /\ log'[1][1] \in Mutators

\* C13: a call of set_input, set_inputs or set_weight, or a write of a bias,
\* leaves sum_cache and result_cache of every compute node as they were, so
\* that get_value after it returns, for a node with a cached value, the value
\* cached before the call.
MutatorsKeepCaches ==
    [][MutatorStep =>
         \A n \in ComputeNodes(nw) :
            /\ NodeAt(nw', n).sum_cache = NodeAt(nw, n).sum_cache
            /\ NodeAt(nw', n).result_cache = NodeAt(nw, n).result_cache
            /\ IsSome(NodeAt(nw, n).result_cache) =>
                  get_value(nw', n[1], n[2]).val = Unwrap(NodeAt(nw, n).result_cache)]_vars

\* a mutator has returned and left a node with a cached value that its
\* weights, bias and inputs no longer give
MutatorsKeepCaches_witness ==
    /\ HasNetwork
    /\ ~Panicked
    /\ log[1][1] \in Mutators
    /\ \E n \in ComputeNodes(nw) :
          /\ IsSome(NodeAt(nw, n).result_cache)
          /\ ~CacheCurrent(nw, n)

-----------------------------------------------------------------------------
\* the values of the input nodes of net
InputValues(net) == [i \in 1..Len(net.layers[1]) |-> net.layers[1][i].value]

\* no compute node of net caches anything
NothingCached(net) ==
    \A n \in ComputeNodes(net) :
        NodeAt(net, n).sum_cache = None /\ NodeAt(net, n).result_cache = None

\* what node n caches in net is what the input values and the weights and
\* biases of net give when everything is computed anew
CachedFromCurrent(net, n) ==
    /\ IsSome(NodeAt(net, n).sum_cache) =>
          Unwrap(NodeAt(net, n).sum_cache) = get_sum(Network_invalidate(net), n[1], n[2]).val
    /\ IsSome(NodeAt(net, n).result_cache) =>
          Unwrap(NodeAt(net, n).result_cache) = get_value(Network_invalidate(net), n[1], n[2]).val

\* the frame of the train_on_data that is running or has called the running
\* train_on_current_data
ExampleFrame ==
    IF Running("train_on_data") THEN Top ELSE stack[Len(stack) - 1]

\* train_on_data has done set_inputs / has done invalidate and runs the sweep
InputsSet == Running("train_on_data") /\ Top.pc \in {"invalidate", "train_on_current_data"}
InSweepOfExample ==
    /\ Running("train_on_current_data")
    /\ Len(stack) >= 2
    /\ stack[Len(stack) - 1].fn = "train_on_data"

\* C14: train_on_data does set_inputs, then invalidate, then
\* train_on_current_data: after set_inputs the input nodes hold the example's
\* inputs; when train_on_current_data is called and when its
\* request_nudges_end begins nothing is cached; and throughout the sweep every
\* cached sum and value is what the example's inputs and the current weights
\* give.
SweepReadsOwnExample ==
    /\ (InputsSet \/ InSweepOfExample) => InputValues(nw) = ExampleFrame.data.inputs
    /\ (Running("train_on_data") /\ Top.pc = "train_on_current_data") => NothingCached(nw)
    /\ (InSweepOfExample /\ Top.pc = "request_nudges_end") => NothingCached(nw)
    /\ InSweepOfExample => \A n \in ComputeNodes(nw) : CachedFromCurrent(nw, n)

\* the sweep of the second example of a batch, with other inputs than the
\* first, reads a cached sum that a non-zero weight gives
SweepReadsOwnExample_witness ==
    /\ InSweepOfExample
    /\ AtCalcNudge
    /\ trained = 1
    /\ Len(log) = 2
    /\ log[1][2].inputs # log[2][2].inputs
    /\ \E n \in ComputeNodes(nw) :
          /\ IsSome(NodeAt(nw, n).sum_cache)
          /\ Unwrap(NodeAt(nw, n).sum_cache) # F0

-----------------------------------------------------------------------------
\* the constructor has just run / the config it was given: Network::new
\* takes a shape and the learning rate 1.0
JustConstructed == work = 0 /\ log[1][1] \in {"new", "with_config"}
GivenConfig ==
    IF log[1][1] = "new" THEN [learning_rate |-> F1, shape |-> log[1][2]] ELSE log[1][2]

\* the compute node that layer li of a new network of shape sh holds
NewComputeNode(sh, li) ==
    [type |-> "Node", bias |-> F0, layer |-> li,
     inp_w |-> [k \in 1..sh[li] |-> F0],
     sum_cache |-> None, result_cache |-> None,
     bias_nudge_sum |-> F0, inp_w_nudge_sum |-> [k \in 1..sh[li] |-> F0],
     nudge_cnt |-> 0, requested_nudge |-> F0]

\* C15: Network::new and with_config, given a shape of length >= 2, return a
\* network of len(shape) layers, layer i holding shape[i] nodes: input nodes
\* of value 0 in layer 0 and, in every layer i >= 1, compute nodes of bias 0,
\* layer i, a zero weight vector of length shape[i-1] and unset caches; the
\* config stored is the config given (learning rate 1.0 for Network::new).
ConstructionLaw ==
    (JustConstructed /\ Len(GivenConfig.shape) >= 2) =>
        /\ ~Panicked
        /\ HasNetwork
        /\ nw.config = GivenConfig
        /\ Len(nw.layers) = Len(GivenConfig.shape)
        /\ \A i \in 1..Len(nw.layers) :
              /\ Len(nw.layers[i]) = GivenConfig.shape[i]
              /\ \A k \in 1..Len(nw.layers[i]) :
                    nw.layers[i][k] = IF i = 1
                                      THEN [type |-> "StartNode", value |-> F0]
                                      ELSE NewComputeNode(GivenConfig.shape, i - 1)

\* Network::new has returned a network of three layers of sizes 2, 2 and 1
ConstructionLaw_witness ==
    /\ JustConstructed
    /\ log[1][1] = "new"
    /\ log[1][2] = <<2, 2, 1>>
    /\ HasNetwork
    /\ Len(nw.layers[2][1].inp_w) = 2

-----------------------------------------------------------------------------
\* C16: Network::new and with_config, given a shape of length 0 or 1, panic
\* and return no network.
ShortShapePanics ==
    (JustConstructed /\ Len(GivenConfig.shape) < 2) =>
        /\ Panicked
        /\ Top.msg = "network must have at least start and end layers!"
        /\ ~HasNetwork

\* the constructor has panicked on a shape of one layer
ShortShapePanics_witness ==
    /\ JustConstructed
    /\ Len(GivenConfig.shape) = 1
    /\ Panicked
    /\ ~HasNetwork

-----------------------------------------------------------------------------
\* the last call of the driver, its arguments and its outcome
LastCall == log[1][1]
LastArgs == log[1][2]
LastOutcome == log[1][3][1]

\* C17: constructing a compute node (Node::new) for layer l with a weight
\* vector whose length is not the size of layer l - 1 is a fatal error.
NodeNewChecksLength ==
    (/\ HasNetwork
     /\ LastCall = "Node::new"
     /\ Len(LastArgs[2]) # Len(get_layer(nw, LastArgs[3] - 1))) => Panicked

-----------------------------------------------------------------------------
\* a step of the driver that is a call of fn
CallStep(fn) == work' = work + 1 /\ log'[1][1] = fn

\* the networks before and after have the same layers of the same sizes
SameShape(net1, net2) ==
    /\ Len(net1.layers) = Len(net2.layers)
    /\ \A i \in 1..Len(net1.layers) : Len(net1.layers[i]) = Len(net2.layers[i])

\* C18: set_inputs(values) with as many values as layer 0 has nodes sets
\* input node i to values[i] for every i and changes no compute node; with
\* any other length it panics and leaves every input value (and the rest of
\* the network) as it was.
SetInputsContract ==
    [][CallStep("set_inputs") =>
          LET values == log'[1][2][1]
          IN  IF Len(values) = Len(nw.layers[1])
              THEN /\ log'[1][3][1] = "return"
                   /\ stack' = << >>
                   /\ SameShape(nw, nw')
                   /\ InputValues(nw') = values
                   /\ \A n \in ComputeNodes(nw) : NodeAt(nw', n) = NodeAt(nw, n)
              ELSE /\ log'[1][3][1] = "panic"
                   /\ stack' = << Frame_panic("number of inputs must match number of nodes in layer 0") >>
                   /\ InputValues(nw') = InputValues(nw)
                   /\ nw' = nw]_vars

\* set_inputs has panicked on a vector longer than layer 0 that holds other
\* values than the input nodes, which an earlier call has set
SetInputsContract_witness ==
    /\ HasNetwork
    /\ Panicked
    /\ LastCall = "set_inputs"
    /\ Len(LastArgs[1]) > Len(nw.layers[1])
    /\ \E i \in 1..Len(nw.layers[1]) :
          nw.layers[1][i].value = F1 /\ LastArgs[1][i] = F0

-----------------------------------------------------------------------------
\* the value that node i of the last layer gives when it is read in net
OutputValue(net, i) == get_value(net, n_layers(net) - 1, i).val

RECURSIVE SquaredErrorSum(_, _, _)
\* the sum of (expected[i] - value_i)^2 over the first k nodes of the last layer
SquaredErrorSum(net, expected, k) ==
    IF k = 0
    THEN F0
    ELSE FAdd(SquaredErrorSum(net, expected, k - 1),
              FMul(FSub(expected[k], OutputValue(net, k - 1)),
                   FSub(expected[k], OutputValue(net, k - 1))))

\* node with its caches left out
Uncached(node) == [node EXCEPT !.sum_cache = None, !.result_cache = None]

\* C19: get_current_cost(expected) with an expected of another length than
\* the last layer panics with no cache populated (the network is as it was);
\* otherwise it returns the sum over the last layer's nodes of
\* (expected[i] - value_i)^2 and changes nothing but caches: weights, biases,
\* inputs and accumulators stay.
CostContract ==
    [][CallStep("get_current_cost") =>
          LET expected == log'[1][2][1]
          IN  IF Len(expected) = Len(last_layer(nw))
              THEN /\ log'[1][3] = <<"return", SquaredErrorSum(nw, expected, Len(expected))>>
                   /\ stack' = << >>
                   /\ SameShape(nw, nw')
                   /\ nw'.config = nw.config
                   /\ nw'.layers[1] = nw.layers[1]
                   /\ \A n \in ComputeNodes(nw) :
                         Uncached(NodeAt(nw', n)) = Uncached(NodeAt(nw, n))
              ELSE /\ log'[1][3][1] = "panic"
                   /\ stack' = << Frame_panic("Length of expected must match length of output") >>
                   /\ nw' = nw]_vars

\* get_current_cost has returned a cost other than 0 and has filled the
\* caches of every node
CostContract_witness ==
    /\ HasNetwork
    /\ LastCall = "get_current_cost"
    /\ LastOutcome = "return"
    /\ log[1][3][2] # F0
    /\ Len(nw.layers) = 3
    /\ \A n \in ComputeNodes(nw) : IsSome(NodeAt(nw, n).result_cache)

-----------------------------------------------------------------------------
(* training_data.rs: TrainingData(Vec<TrainingExample>) is the sequence of  *)
(* its examples.  slice::chunks gives an iterator over the slice that is    *)
(* left and the chunk size.                                                 *)

\* the examples of a batch and the chunk sizes of a run
MaxData == 24
MaxChunkSize == 11

\* tests::get_tr_data: example i of len is ([i, len], [i + 0.5])
get_tr_data(len) ==
    [k \in 1..len |->
        TrainingExample_new(<<FromUsize(k - 1), FromUsize(len)>>,
                            <<FAdd(FromUsize(k - 1), FDiv(F1, F2))>>)]

\* slice::split_at
split_at(v, mid) == [fst |-> SubSeq(v, 1, mid), snd |-> SubSeq(v, mid + 1, Len(v))]

\* self.0.chunks(size), for a size other than 0
Chunks_new(v, size) == [v |-> v, chunk_size |-> size]

\* a variant of the iterator that leaves out a chunk shorter than chunk_size
Chunks_next_exact(it) ==
    IF Len(it.v) < it.chunk_size
    THEN [it |-> [it EXCEPT !.v = << >>], item |-> None]
    ELSE [it |-> [it EXCEPT !.v = split_at(it.v, it.chunk_size).snd],
          item |-> Some(split_at(it.v, it.chunk_size).fst)]

\* the next of the iterator of iter_chunks: the next chunk of the slice as a
\* TrainingData of its own (c.to_vec()), or None when nothing is left
Chunks_next(it) ==
    IF it.v = << >>
    THEN [it |-> it, item |-> None]
    ELSE LET chunksz == IF Len(it.v) < it.chunk_size THEN Len(it.v) ELSE it.chunk_size
         IN  [it |-> [it EXCEPT !.v = split_at(it.v, chunksz).snd],
              item |-> Some(split_at(it.v, chunksz).fst)]

\* the frame of TrainingData::chunks: the iterator and what collect() has so far
Frame_chunks(self, size) ==
    [fn |-> "chunks", size |-> size, it |-> Chunks_new(self, size), out |-> << >>]

\* the driver builds a batch; trained keeps the batch as it was built
ChunkInit ==
    /\ \E len \in 0..MaxData : nw = get_tr_data(len) /\ trained = get_tr_data(len)
    /\ stack = << >>
    /\ log = << >>
    /\ sweep = NoSweep
    /\ work = 0

\* data.chunks(size) is called with a size of at least 1
Call_chunks(size) ==
    /\ Idle
    /\ work < MaxCalls
    /\ size >= 1
    /\ stack' = << Frame_chunks(nw, size) >>
    /\ log' = << >>
    /\ work' = work + 1
    /\ UNCHANGED <<nw, sweep, trained>>

\* a variant of chunks(0) that returns no chunks
Panic_chunks_returns_empty ==
    /\ Idle
    /\ work < MaxCalls
    /\ stack' = << >>
    /\ log' = << <<"chunks", <<0>>, <<"return", << >> >> >> >>
    /\ work' = work + 1
    /\ UNCHANGED <<nw, sweep, trained>>

\* data.chunks(0): slice::chunks panics on a chunk size of 0
Panic_chunks ==
    /\ Idle
    /\ work < MaxCalls
    /\ stack' = << Frame_panic("chunk size must be non-zero") >>
    /\ log' = << <<"chunks", <<0>>, <<"panic", "chunk size must be non-zero">> >> >>
    /\ work' = work + 1
    /\ UNCHANGED <<nw, sweep, trained>>

\* collect() takes the next chunk
Step_chunks ==
    /\ Running("chunks")
    /\ IsSome(Chunks_next(Top.it).item)
    /\ stack' = Replace([Top EXCEPT !.it = Chunks_next(Top.it).it,
                                    !.out = Append(@, Unwrap(Chunks_next(Top.it).item))])
    /\ UNCHANGED <<nw, log, sweep, trained, work>>

\* the iterator is at its end: chunks returns what was collected
Return_chunks ==
    /\ Running("chunks")
    /\ Chunks_next(Top.it).item = None
    /\ stack' = Pop
    /\ log' = << <<"chunks", <<Top.size>>, <<"return", Top.out>> >> >>
    /\ UNCHANGED <<nw, sweep, trained, work>>

ChunkNext ==
    \/ \E size \in 1..MaxChunkSize : Call_chunks(size)
    \/ Panic_chunks
    \/ Step_chunks
    \/ Return_chunks

ChunkSpec == ChunkInit /\ [][ChunkNext]_vars

-----------------------------------------------------------------------------
\* chunks has returned
ChunksReturned == Idle /\ log # << >> /\ log[1][1] = "chunks" /\ log[1][3][1] = "return"

\* the lengths of the sequences of ss
Sizes(ss) == [k \in 1..Len(ss) |-> Len(ss[k])]

\* ceil(n / d)
CeilDiv(n, d) == (n + d - 1) \div d

\* C20: chunks(max_size) with max_size >= 1 on a batch of n examples returns
\* ceil(n / max_size) sub-batches whose concatenation in order is the batch;
\* every chunk but the last has max_size examples, the last between 1 and
\* max_size; an empty batch gives no chunk; the batch is as it was built.
ChunksContract ==
    ChunksReturned =>
        LET out == log[1][3][2]
            max_size == log[1][2][1]
        IN  /\ max_size >= 1
            /\ Len(out) = CeilDiv(Len(trained), max_size)
            /\ Flatten(out) = trained
            /\ \A k \in 1..(Len(out) - 1) : Len(out[k]) = max_size
            /\ out # << >> => Len(out[Len(out)]) \in 1..max_size
            /\ trained = << >> => out = << >>
            /\ nw = trained

\* 24 examples chunked at size 10 have given chunks of sizes 10, 10 and 4
ChunksContract_witness ==
    /\ ChunksReturned
    /\ Len(trained) = 24
    /\ log[1][2][1] = 10
    /\ Sizes(log[1][3][2]) = <<10, 10, 4>>
    /\ log[1][3][2][3] = SubSeq(trained, 21, 24)


-----------------------------------------------------------------------------
\* C21: chunks(0) fails: it panics and returns no sequence of chunks, for an
\* empty batch as for any other, no call collects chunks of size 0, and the
\* batch is as it was built.
ChunksOfZeroFails ==
    /\ \A k \in 1..Len(stack) : stack[k].fn = "chunks" => stack[k].size # 0
    /\ (log # << >> /\ log[1][1] = "chunks" /\ log[1][2][1] = 0) =>
          /\ Panicked
          /\ log[1][3][1] = "panic"
          /\ nw = trained

\* chunks(0) has panicked on an empty batch, after a call that returned
ChunksOfZeroFails_witness ==
    /\ Panicked
    /\ log[1][1] = "chunks"
    /\ log[1][2][1] = 0
    /\ nw = << >>
    /\ work = 2


-----------------------------------------------------------------------------
\* what the last call returned
LastValue == log[1][3][2]

\* C22: the variant-checked accessors: get_main_node and get_main_node_mut
\* with layer 0 panic for every node index; what they return otherwise is the
\* compute node at (layer, index); get_start_node returns an input node of
\* layer 0 or panics; get_node_as::<T> returns the node at (layer, index)
\* when it is of type T and None when it is not.
VariantChecked ==
    HasNetwork =>
        /\ (LastCall \in {"get_main_node", "get_main_node_mut"} /\ LastArgs[1] = 0) =>
              Panicked /\ log[1][3] = <<"panic", "no main nodes in layer 0">>
        /\ (LastCall \in {"get_main_node", "get_main_node_mut"} /\ LastOutcome = "return") =>
              /\ LastArgs[1] >= 1
              /\ LastValue.type = "Node"
              /\ LastValue = nw.layers[LastArgs[1] + 1][LastArgs[2] + 1]
        /\ (LastCall \in {"get_start_node", "get_start_node_mut"} /\ LastOutcome = "return") =>
              /\ LastValue.type = "StartNode"
              /\ LastValue = nw.layers[1][LastArgs[1] + 1]
        /\ (LastCall \in {"get_node_as", "get_node_as_mut"} /\ LastOutcome = "return") =>
              IF nw.layers[LastArgs[1] + 1][LastArgs[2] + 1].type = LastArgs[3]
              THEN LastValue = Some(nw.layers[LastArgs[1] + 1][LastArgs[2] + 1])
              ELSE LastValue = None

\* get_main_node_mut has panicked on a node of layer 0 that exists
VariantChecked_witness ==
    /\ HasNetwork
    /\ Panicked
    /\ LastCall = "get_main_node_mut"
    /\ LastArgs[1] = 0
    /\ LastArgs[2] < Len(nw.layers[1])

-----------------------------------------------------------------------------
\* the calls that take indices
Indexed ==
    {"get_node", "get_node_mut", "get_layer", "get_output", "set_input", "get_weight",
     "set_weight", "get_node_as", "get_node_as_mut", "get_start_node", "get_start_node_mut",
     "get_main_node", "get_main_node_mut"}

\* a layer index at or beyond the number of layers of net
BeyondLayers(net, li) == li >= Len(net.layers)

\* a node index at or beyond the length of layer li of net
BeyondLayer(net, li, ni) == BeyondLayers(net, li) \/ ni >= Len(net.layers[li + 1])

\* the call name(args) on net has an index beyond bounds
OutOfRange(net, name, args) ==
    CASE name = "get_layer" -> BeyondLayers(net, args[1])
      [] name \in {"get_node", "get_node_mut", "get_node_as", "get_node_as_mut",
                    "get_main_node", "get_main_node_mut"} ->
             BeyondLayer(net, args[1], args[2])
      [] name = "get_output" -> args[1] >= Len(net.layers[Len(net.layers)])
      [] name \in {"set_input", "get_start_node", "get_start_node_mut"} ->
             args[1] >= Len(net.layers[1])
      [] name \in {"get_weight", "set_weight"} ->
             \/ BeyondLayer(net, args[1], args[2])
             \/ args[3] >= Len(net.layers[args[1] + 1][args[2] + 1].inp_w)
      [] OTHER -> FALSE

\* C23: an accessor or a setter given a layer index >= the number of layers,
\* a node index >= the length of the layer or a weight index >= the length
\* of the weight vector panics and leaves the network as it was.
OutOfRangePanics ==
    [][(work' = work + 1 /\ log'[1][1] \in Indexed /\ OutOfRange(nw, log'[1][1], log'[1][2])) =>
          /\ log'[1][3][1] = "panic"
          /\ stack' # << >>
          /\ stack'[1].fn = "panic"
          /\ nw' = nw]_vars

\* set_weight has panicked on the first weight index beyond the weights of a
\* node that has two
OutOfRangePanics_witness ==
    /\ HasNetwork
    /\ Panicked
    /\ LastCall = "set_weight"
    /\ ~BeyondLayer(nw, LastArgs[1], LastArgs[2])
    /\ LastArgs[3] = 2
    /\ Len(nw.layers[LastArgs[1] + 1][LastArgs[2] + 1].inp_w) = 2


-----------------------------------------------------------------------------
\* net with the learning rate r
WithRate(net, r) == [net EXCEPT !.config.learning_rate = r]

\* the update of node n between the networks before and after: what was
\* added to its bias and to each of its weights
UpdateAt(before, after, n) ==
    [bias |-> FSub(NodeAt(after, n).bias, NodeAt(before, n).bias),
     inp_w |-> [i \in WeightIndices(NodeAt(before, n)) |->
                  FSub(NodeAt(after, n).inp_w[i], NodeAt(before, n).inp_w[i])]]

\* the factors a learning rate is multiplied by
RateFactors == {F2}

\* what rounding can make of a difference between c times a step and the
\* step computed with c times the rate: the steps of the arithmetic that
\* round, each by half a unit, scaled by c
Slack(c) == c

\* a and b are finite and differ by no more than tol units
Within(a, b, tol) ==
    /\ ~IsNaN(a) /\ ~IsInf(a) /\ ~IsNaN(b) /\ ~IsInf(b)
    /\ a - b <= tol
    /\ b - a <= tol

\* the update v is c times the update u, up to rounding
ScaledBy(c, u, v) ==
    /\ Within(v.bias, FMul(c, u.bias), Slack(c))
    /\ \A i \in DOMAIN u.inp_w : Within(v.inp_w[i], FMul(c, u.inp_w[i]), Slack(c))

\* C24: for the same weights and the same batch, the update that
\* train_on_batch applies to every bias and weight of every compute layer
\* with the learning rate c * r is c times the update it applies with the
\* learning rate r.
LearningRateScalesUpdate ==
    [][CallStep("train_on_batch") =>
          \A c \in RateFactors : \A n \in ComputeNodes(nw) :
              ScaledBy(c, UpdateAt(nw, nw', n),
                       UpdateAt(nw, train_on_batch(WithRate(nw, FMul(c, nw.config.learning_rate)),
                                                   log'[1][2][1]), n))]_vars


-----------------------------------------------------------------------------
\* the state of the cache of a node
CacheState(node) ==
    IF IsSome(node.result_cache)
    THEN (IF IsSome(node.sum_cache) THEN "Full" ELSE "ResultOnly")
    ELSE (IF IsSome(node.sum_cache) THEN "SumOnly" ELSE "Empty")

\* the two caches of a node
CachesOf(node) == <<node.sum_cache, node.result_cache>>

\* the calls that are said to leave every cache alone
CacheNeutral == {"set_input", "set_inputs", "request_nudge", "apply_nudges", "clear_nudges"}

\* what the call name(args) may make of the cache of node n, a being the
\* node before and b the node after the call
CacheTransition(name, args, n, a, b) ==
    CASE name = "get_value" ->
             IF n = <<args[1], args[2]>>
             THEN /\ CacheState(b) = "Full"
                  /\ CacheState(a) # "Empty" => b.sum_cache = a.sum_cache
                  /\ CacheState(a) = "Full" => b.result_cache = a.result_cache
             ELSE CachesOf(b) = CachesOf(a) \/ (CacheState(a) # "Full" /\ CacheState(b) = "Full")
      [] name = "get_sum" ->
             IF n = <<args[1], args[2]>>
             THEN IF CacheState(a) = "Empty"
                  THEN CacheState(b) = "SumOnly"
                  ELSE CachesOf(b) = CachesOf(a)
             ELSE CachesOf(b) = CachesOf(a) \/ (CacheState(a) # "Full" /\ CacheState(b) = "Full")
      [] name = "invalidate" -> CacheState(b) = "Empty"
      [] name = "Node::invalidate" ->
             IF n = <<args[1], args[2]>>
             THEN CacheState(b) = "Empty"
             ELSE CachesOf(b) = CachesOf(a)
      [] name \in CacheNeutral -> CachesOf(b) = CachesOf(a)
      [] OTHER -> TRUE

\* get_value on a node that holds its sum reads no node of the layer before:
\* the caches of every other node stay
ReusesSum(name, args, before, after) ==
    (name = "get_value" /\ CacheState(get_node(before, args[1], args[2])) = "SumOnly") =>
        /\ Unwrap(get_node(after, args[1], args[2]).result_cache) =
              Sigmoid(Unwrap(get_node(before, args[1], args[2]).sum_cache))
        /\ \A m \in ComputeNodes(before) \ {<<args[1], args[2]>>} :
              CachesOf(NodeAt(after, m)) = CachesOf(NodeAt(before, m))

\* C25: the cache of a compute node is Empty, SumOnly or Full.  get_value
\* takes the node it is called on to Full (from SumOnly with the cached sum,
\* reading no node of the layer before); get_sum takes it from Empty to
\* SumOnly and leaves SumOnly and Full; invalidate takes it to Empty; no call
\* leaves result_cache set with sum_cache unset; set_input, set_inputs,
\* request_nudge, apply_nudges and clear_nudges change no cache.
CacheStateMachine ==
    [][work' = work + 1 =>
          /\ ReusesSum(log'[1][1], log'[1][2], nw, nw')
          /\ \A n \in ComputeNodes(nw) :
                /\ CacheState(NodeAt(nw', n)) # "ResultOnly"
                /\ CacheTransition(log'[1][1], log'[1][2], n, NodeAt(nw, n), NodeAt(nw', n))]_vars

\* get_value has left a node of the last layer Full while a node of the
\* layer before, invalidated since it was read, is Empty
CacheStateMachine_witness ==
    /\ HasNetwork
    /\ work = 3
    /\ LastCall = "get_value"
    /\ LastArgs[1] = 2
    /\ CacheState(get_node(nw, 2, LastArgs[2])) = "Full"
    /\ \E m \in ComputeNodes(nw) : m[1] = 1 /\ CacheState(NodeAt(nw, m)) = "Empty"


-----------------------------------------------------------------------------
(* main.rs: run_checks, the program that main runs.  The node it reads, the *)
(* input and the weight it sets, the values it sets them to and the         *)
(* expected vector of the cost are the frame's: run_checks has the node     *)
(* (1, 1), input 1 set to 1.0, weight 1 set to 1.0 and expected [0.5, 1.0]. *)
(* log holds what the calls returned.                                       *)

\* the values run_checks is run with
CheckVals == {F0, FDiv(F1, F2), F1}

Frame_run_checks(ni, ii, wi, x, w, expected) ==
    [fn |-> "run_checks", pc |-> "get_value", ni |-> ni, ii |-> ii, wi |-> wi,
     x |-> x, w |-> w, expected |-> expected]

ChecksInit ==
    /\ nw = Network_new(<<2, 2>>)
    /\ \E ni \in 0..1, ii \in 0..1, wi \in 0..1, x \in CheckVals, w \in CheckVals :
          \E expected \in [1..2 -> CheckVals] :
             stack = << Frame_run_checks(ni, ii, wi, x, w, expected) >>
    /\ log = << >>
    /\ sweep = NoSweep
    /\ trained = 0
    /\ work = 0

\* let v = nw.get_node(1, ni).get_value(&nw)
Check_get_value ==
    /\ Running("run_checks")
    /\ Top.pc = "get_value"
    /\ nw' = get_value(nw, 1, Top.ni).nw
    /\ log' = Append(log, get_value(nw, 1, Top.ni).val)
    /\ stack' = Replace([Top EXCEPT !.pc = "set_value"])
    /\ UNCHANGED <<sweep, trained, work>>

\* nw.get_start_node_mut(ii).set_value(x)
Check_set_value ==
    /\ Running("run_checks")
    /\ Top.pc = "set_value"
    /\ nw' = set_input(nw, Top.ii, Top.x)
    /\ stack' = Replace([Top EXCEPT !.pc = "set_weight"])
    /\ UNCHANGED <<log, sweep, trained, work>>

\* nw.get_main_node_mut(1, ni).set_weight(wi, w)
Check_set_weight ==
    /\ Running("run_checks")
    /\ Top.pc = "set_weight"
    /\ nw' = set_weight(nw, 1, Top.ni, Top.wi, Top.w)
    /\ stack' = Replace([Top EXCEPT !.pc = "invalidate"])
    /\ UNCHANGED <<log, sweep, trained, work>>

\* nw.get_main_node(1, ni).invalidate()
Check_invalidate ==
    /\ Running("run_checks")
    /\ Top.pc = "invalidate"
    /\ nw' = put_node(nw, 1, Top.ni, Node_invalidate(get_node(nw, 1, Top.ni)))
    /\ stack' = Replace([Top EXCEPT !.pc = "get_value again"])
    /\ UNCHANGED <<log, sweep, trained, work>>

\* let v = nw.get_main_node(1, ni).get_value(&nw)
Check_get_value_again ==
    /\ Running("run_checks")
    /\ Top.pc = "get_value again"
    /\ nw' = get_value(nw, 1, Top.ni).nw
    /\ log' = Append(log, get_value(nw, 1, Top.ni).val)
    /\ stack' = Replace([Top EXCEPT !.pc = "get_current_cost"])
    /\ UNCHANGED <<sweep, trained, work>>

\* nw.get_current_cost(&expected)
Check_get_current_cost ==
    /\ Running("run_checks")
    /\ Top.pc = "get_current_cost"
    /\ nw' = get_current_cost(nw, Top.expected).nw
    /\ log' = Append(log, get_current_cost(nw, Top.expected).val)
    /\ stack' = Replace([Top EXCEPT !.pc = "done"])
    /\ UNCHANGED <<sweep, trained, work>>

ChecksNext ==
    \/ Check_get_value
    \/ Check_set_value
    \/ Check_set_weight
    \/ Check_invalidate
    \/ Check_get_value_again
    \/ Check_get_current_cost

ChecksSpec == ChecksInit /\ [][ChecksNext]_vars

-----------------------------------------------------------------------------
\* run_checks is at pc / has passed the first read, the second read, the cost
At(pc) == stack # << >> /\ Top.fn = "run_checks" /\ Top.pc = pc
Read1 == Len(log) >= 1
Read2 == Len(log) >= 2
Costed == Len(log) >= 3

\* the sum of the node that run_checks reads, once the input and the weight
\* are set: input ii is x and the others are 0, weight wi is w and the
\* others and the bias are 0
CheckedSum == IF Top.wi = Top.ii THEN FMul(Top.x, Top.w) ELSE F0

\* what node i of layer 1 evaluates to at the end of run_checks
CheckedValue(i) == IF i = Top.ni THEN Sigmoid(CheckedSum) ELSE Sigmoid(F0)

\* C26: on shape [2,2] with all weights and biases 0 and inputs [0,0]: the
\* first read of the node gives sigmoid(0) and caches it; after the input and
\* the weight are set and the node alone is invalidated its cache is Empty;
\* the second read gives the sigmoid of its sum (sigmoid(1) for input 1 and
\* weight 1 set to 1.0) with sum_cache the sum and result_cache the value;
\* the other node still evaluates to sigmoid(0), so that the cost is
\* (expected[0] - value_0)^2 + (expected[1] - value_1)^2.
RunChecksScenario ==
    /\ Read1 => log[1] = Sigmoid(F0)
    /\ At("set_value") => get_node(nw, 1, Top.ni).result_cache = Some(Sigmoid(F0))
    /\ At("get_value again") => CacheState(get_node(nw, 1, Top.ni)) = "Empty"
    /\ Read2 =>
          /\ log[2] = Sigmoid(CheckedSum)
          /\ get_node(nw, 1, Top.ni).sum_cache = Some(CheckedSum)
          /\ get_node(nw, 1, Top.ni).result_cache = Some(log[2])
    /\ Costed =>
          /\ get_value(nw, 1, 1 - Top.ni).val = Sigmoid(F0)
          /\ log[3] = FAdd(FAdd(F0, FMul(FSub(Top.expected[1], CheckedValue(0)),
                                         FSub(Top.expected[1], CheckedValue(0)))),
                           FMul(FSub(Top.expected[2], CheckedValue(1)),
                                FSub(Top.expected[2], CheckedValue(1))))

\* run_checks as main.rs has it is done: node (1,1), input 1 and weight 1
\* set to 1.0, expected [0.5, 1.0], the two reads gave sigmoid(0) and
\* sigmoid(1)
RunChecksScenario_witness ==
    /\ At("done")
    /\ Top.ni = 1 /\ Top.ii = 1 /\ Top.wi = 1 /\ Top.x = F1 /\ Top.w = F1
    /\ Top.expected = <<FDiv(F1, F2), F1>>
    /\ log[1] = Sigmoid(F0)
    /\ log[2] = Sigmoid(F1)
    /\ log[2] # log[1]
    /\ get_node(nw, 1, 1).sum_cache = Some(F1)


-----------------------------------------------------------------------------
\* base of one calc_nudge call on node c of net: p * sigmoid_derivative(s) * r
\* for the pending nudge p, the sum s of the node and the learning rate r
BaseOf(net, c) ==
    FMul(FMul(NodeAt(net, c).requested_nudge, SigDeriv(get_sum(net, c[1], c[2]).val)),
         net.config.learning_rate)

\* the value of node i of the layer before node c
PrevValue(net, c, i) == get_value(net, c[1] - 1, i).val

\* the accumulators of a node but its pending nudge
SumsOf(node) == <<node.bias_nudge_sum, node.inp_w_nudge_sum, node.nudge_cnt>>

\* C27: one calc_nudge call on a compute node adds base to bias_nudge_sum,
\* adds base * value(node i of the layer before) to inp_w_nudge_sum[i] for
\* every weight index i and 1 to nudge_cnt; it leaves the bias and the
\* weights of every node, and the accumulators of every other node but the
\* pending nudges of the layer before.
CalcNudgeAccumulates ==
    [][AtCalcNudge =>
         LET c == Head(Top.todo)
             old == NodeAt(nw, c)
             new == NodeAt(nw', c)
         IN  /\ new.bias_nudge_sum = FAdd(old.bias_nudge_sum, BaseOf(nw, c))
             /\ Len(new.inp_w_nudge_sum) = Len(old.inp_w)
             /\ \A i \in WeightIndices(old) :
                   new.inp_w_nudge_sum[i] =
                      FAdd(old.inp_w_nudge_sum[i], FMul(BaseOf(nw, c), PrevValue(nw, c, i - 1)))
             /\ new.nudge_cnt = old.nudge_cnt + 1
             /\ Params(nw') = Params(nw)
             /\ \A m \in ComputeNodes(nw) \ {c} :
                   /\ SumsOf(NodeAt(nw', m)) = SumsOf(NodeAt(nw, m))
                   /\ m[1] # c[1] - 1 =>
                         NodeAt(nw', m).requested_nudge = NodeAt(nw, m).requested_nudge]_vars

\* calc_nudge has run on a node of a network whose learning rate is not 1
\* and has left it a bias sum and a weight sum other than 0
CalcNudgeAccumulates_witness ==
    /\ Running("train_on_current_data")
    /\ nw.config.learning_rate # F1
    /\ \E c \in sweep.visited :
          /\ NodeAt(nw, c).nudge_cnt = 1
          /\ NodeAt(nw, c).bias_nudge_sum # F0
          /\ NodeAt(nw, c).inp_w_nudge_sum[1] # F0

-----------------------------------------------------------------------------
\* a frame of the training interface is on the stack
InTraining ==
    \E k \in 1..Len(stack) :
        stack[k].fn \in {"train_on_batches", "train_on_batch", "train_on_data",
                         "train_on_current_data", "apply_nudges"}

\* train_on_data is about to set the inputs
AtSetInputs == Running("train_on_data") /\ Top.pc = "set_inputs"

\* C28: calc_nudge on a node of a layer L >= 2 adds base * inp_w[i] to the
\* pending nudge of node i of layer L - 1 for every i; calc_nudge on a node
\* of layer 1 changes no input node; request_nudge on an input node does
\* nothing, and no step of training but set_inputs changes an input node.
UpstreamPropagation ==
    [][/\ AtCalcNudge =>
            LET c == Head(Top.todo)
            IN  /\ c[1] >= 2 =>
                      \A i \in WeightIndices(NodeAt(nw, c)) :
                          get_node(nw', c[1] - 1, i - 1).requested_nudge =
                             FAdd(get_node(nw, c[1] - 1, i - 1).requested_nudge,
                                  FMul(BaseOf(nw, c), NodeAt(nw, c).inp_w[i]))
                /\ c[1] = 1 => nw'.layers[1] = nw.layers[1]
       /\ (InTraining /\ ~AtSetInputs) => nw'.layers[1] = nw.layers[1]
       /\ \A i \in 1..Len(nw.layers[1]) : \A v \in InputVals \cup WeightVals :
             request_nudge(nw.layers[1][i], v) = nw.layers[1][i]]_vars

\* calc_nudge has run on the nodes of the last of three layers, whose
\* weights are not 0, and has left the node before them a pending nudge
UpstreamPropagation_witness ==
    /\ Running("train_on_current_data")
    /\ n_layers(nw) = 3
    /\ \E c \in sweep.visited : c[1] = 2 /\ NodeAt(nw, c).inp_w[1] # F0
    /\ \E m \in ComputeNodes(nw) : m[1] = 1 /\ NodeAt(nw, m).requested_nudge # F0

-----------------------------------------------------------------------------
\* train_on_current_data is about to call request_nudges_end
AtRequestNudgesEnd == Running("train_on_current_data") /\ Top.pc = "request_nudges_end"

\* C29: request_nudges_end(expected) adds -2 * (output_i - expected[i]) to
\* the pending nudge of every node i of the last layer, output_i being the
\* value the node gives, and leaves the pending nudge of every other node.
RequestNudgesEndAdds ==
    [][AtRequestNudgesEnd =>
         \A m \in ComputeNodes(nw) :
            NodeAt(nw', m).requested_nudge =
               IF m[1] = n_layers(nw) - 1
               THEN FAdd(NodeAt(nw, m).requested_nudge,
                         FNeg(FMul(F2, FSub(get_value(nw, m[1], m[2]).val,
                                            Top.expected[m[2] + 1]))))
               ELSE NodeAt(nw, m).requested_nudge]_vars

\* request_nudges_end has added to a pending nudge that an earlier example
\* had left other than 0
RequestNudgesEndAdds_witness ==
    /\ Running("train_on_current_data")
    /\ Top.pc = "calc_nudge"
    /\ sweep.visited = {}
    /\ trained >= 1
    /\ \E m \in ComputeNodes(nw) :
          /\ m[1] = n_layers(nw) - 1
          /\ NodeAt(nw, m).requested_nudge # F0
          /\ NodeAt(nw, m).requested_nudge #
                FNeg(FMul(F2, FSub(Unwrap(NodeAt(nw, m).result_cache), Top.expected[m[2] + 1])))

-----------------------------------------------------------------------------
\* Network::apply_nudges is about to call clear_nudges on a node
AtNodeClear == Running("apply_nudges") /\ Top.pc = "clear_nudges"

\* C30: clear_nudges resets bias_nudge_sum, every entry of inp_w_nudge_sum,
\* requested_nudge and nudge_cnt of the node to zero, inp_w_nudge_sum keeping
\* the length of the weight vector, and leaves sum_cache, result_cache, bias
\* and weights of the node, and every other node, as they were.
ClearNudgesResets ==
    [][AtNodeClear =>
         LET c == Head(Top.todo)
             old == NodeAt(nw, c)
             new == NodeAt(nw', c)
         IN  /\ Zeroed(new)
             /\ Len(new.inp_w_nudge_sum) = Len(old.inp_w)
             /\ CachesOf(new) = CachesOf(old)
             /\ new.bias = old.bias
             /\ new.inp_w = old.inp_w
             /\ \A m \in ComputeNodes(nw) \ {c} : NodeAt(nw', m) = NodeAt(nw, m)
             /\ nw'.layers[1] = nw.layers[1]]_vars

\* clear_nudges has zeroed the first node, which holds its caches, while the
\* next node still has its sums
ClearNudgesResets_witness ==
    /\ Running("apply_nudges")
    /\ Top.pc = "apply_nudges"
    /\ Top.todo # << >>
    /\ \E c \in ComputeNodes(nw) :
          /\ Zeroed(NodeAt(nw, c))
          /\ CacheState(NodeAt(nw, c)) = "Full"
    /\ NodeAt(nw, Head(Top.todo)).nudge_cnt >= 1
    /\ NodeAt(nw, Head(Top.todo)).bias_nudge_sum # F0


-----------------------------------------------------------------------------
\* what construction fixes of a node: its variant and, for a compute node,
\* its layer index and the lengths of its weights and of their sums
NodeStructure(node) ==
    IF node.type = "Node"
    THEN <<node.type, node.layer, Len(node.inp_w), Len(node.inp_w_nudge_sum)>>
    ELSE <<node.type>>

\* what construction fixes of a network: the shape, the number of layers, the
\* length of each layer and the structure of each node
Structure(net) ==
    <<net.config.shape,
      [i \in 1..Len(net.layers) |->
          [k \in 1..Len(net.layers[i]) |-> NodeStructure(net.layers[i][k])]]>>

\* the network has the structure with_config gives it: a layer per entry of
\* the shape, shape[i] nodes in layer i, input nodes in layer 0 and compute
\* nodes after it, each with its layer index and shape[layer - 1] weights
\* and weight sums
AsConstructed ==
    /\ n_layers(nw) = Len(nw.config.shape)
    /\ \A li \in 0..(n_layers(nw) - 1) :
          /\ Len(get_layer(nw, li)) = nw.config.shape[li + 1]
          /\ \A ni \in 0..(Len(get_layer(nw, li)) - 1) :
                NodeStructure(get_node(nw, li, ni)) =
                   IF li = 0
                   THEN <<"StartNode">>
                   ELSE <<"Node", li, nw.config.shape[li], nw.config.shape[li]>>

\* C31: through every operation on the network (evaluation, set_input(s),
\* invalidate, training, apply, clear) the number of layers, the length of
\* each layer, the variant of each node, and each compute node's layer index
\* and the lengths of its weights and weight sums stay what construction
\* made them: those of the shape.
StructureKept ==
    /\ []AsConstructed
    /\ [][Structure(nw') = Structure(nw)]_vars

\* a network of three layers has been trained and its nudges applied and
\* cleared: a bias has moved and the caches are full
StructureKept_witness ==
    /\ Idle
    /\ n_layers(nw) = 3
    /\ trained = 0
    /\ \E c \in ComputeNodes(nw) : NodeAt(nw, c).bias # F0 /\ Zeroed(NodeAt(nw, c))
    /\ \A c \in ComputeNodes(nw) : CacheState(NodeAt(nw, c)) = "Full"


-----------------------------------------------------------------------------
(* Evaluation step by step: get_outputs, get_current_cost, get_value and   *)
(* get_sum run as the frames of `stack`, one frame per call in progress,   *)
(* so that the recursion of node.rs is seen call by call.  Here `log` is   *)
(* the history of the sums computed since their node was last invalidated, *)
(* and `sweep` the network as it was when the driver made its call.        *)

\* the shapes of the networks evaluated; the last has an empty output layer
EvalShapes == {<<1, 1>>, <<2, 1>>, <<1, 2>>, <<1, 1, 1>>, <<2, 2, 1>>, <<1, 1, 0>>}

\* set_weight(wi, w) on every weight of every compute node
Weighted(net, w) ==
    [net EXCEPT !.layers = [i \in 1..Len(net.layers) |->
                              [k \in 1..Len(net.layers[i]) |->
                                 IF i > 1
                                 THEN [net.layers[i][k] EXCEPT !.inp_w = VecOf(w, Len(@))]
                                 ELSE net.layers[i][k]]]]

Frame_get_outputs == [fn |-> "get_outputs", i |-> 0, acc |-> << >>]
Frame_get_current_cost(expected) ==
    [fn |-> "get_current_cost", expected |-> expected, i |-> 0, acc |-> F0]
Frame_get_value(li, ni) ==
    [fn |-> "get_value", li |-> li, ni |-> ni, pc |-> "result_cache", inp_sum |-> F0]
Frame_get_sum(li, ni) ==
    [fn |-> "get_sum", li |-> li, ni |-> ni, i |-> 0, acc |-> F0]

\* the stack once the running frame has returned v: the caller takes v into
\* its iterator chain (get_outputs, get_current_cost, get_sum) or as its
\* inp_sum (get_value); a call of the driver leaves the stack empty
Deliver(v) ==
    IF Len(stack) = 1
    THEN << >>
    ELSE LET c == stack[Len(stack) - 1]
         IN  Append(SubSeq(stack, 1, Len(stack) - 2),
                    CASE c.fn = "get_outputs" ->
                           [c EXCEPT !.acc = Append(@, v), !.i = @ + 1]
                      [] c.fn = "get_current_cost" ->
                           [c EXCEPT !.acc = FAdd(@, error_f(c.expected[c.i + 1], v)),
                                     !.i = @ + 1]
                      [] c.fn = "get_value" ->
                           [c EXCEPT !.inp_sum = v, !.pc = "sigmoid"]
                      [] c.fn = "get_sum" ->
                           [c EXCEPT !.acc = FAdd(@, FMul(v, get_node(nw, c.li, c.ni).inp_w[c.i + 1])),
                                     !.i = @ + 1])

\* a network just constructed, its inputs and weights set
EvalInit ==
    /\ \E shape \in EvalShapes : \E inputs \in InputVecs(shape[1]) : \E w \in WeightVals :
          nw = Weighted(set_inputs(Network_new(shape), inputs), w)
    /\ stack = << >>
    /\ log = << >>
    /\ sweep = [at_call |-> nw]
    /\ trained = 0
    /\ work = 0

\* the driver calls f on the network
EvalCall(f) ==
    /\ Idle
    /\ work < MaxCalls
    /\ stack' = <<f>>
    /\ sweep' = [at_call |-> nw]
    /\ work' = work + 1
    /\ UNCHANGED <<nw, log, trained>>

Call_get_outputs ==
    /\ Idle
    /\ EvalCall(Frame_get_outputs)

\* get_current_cost with an expected of the last layer's length (the
\* assert_eq! of lines 64-68 passes)
Call_get_current_cost ==
    \E expected \in InputVecs(Len(last_layer(nw))) : EvalCall(Frame_get_current_cost(expected))

Call_get_value == \E c \in ComputeNodes(nw) : EvalCall(Frame_get_value(c[1], c[2]))

Call_get_sum == \E c \in ComputeNodes(nw) : EvalCall(Frame_get_sum(c[1], c[2]))

\* Network::invalidate
Call_invalidate ==
    /\ Idle
    /\ work < MaxCalls
    /\ nw' = Network_invalidate(nw)
    /\ log' = << >>
    /\ work' = work + 1
    /\ UNCHANGED <<stack, sweep, trained>>

\* <Node as NodeLike>::invalidate on one compute node
Call_node_invalidate ==
    /\ Idle
    /\ work < MaxCalls
    /\ \E c \in ComputeNodes(nw) :
          /\ nw' = put_node(nw, c[1], c[2], Node_invalidate(NodeAt(nw, c)))
          /\ log' = SelectSeq(log, LAMBDA e : e # c)
    /\ work' = work + 1
    /\ UNCHANGED <<stack, sweep, trained>>

\* Network::get_outputs: the map over the last layer, then collect
Step_get_outputs ==
    /\ Running("get_outputs")
    /\ IF Top.i < Len(last_layer(nw))
       THEN stack' = Append(stack, Frame_get_value(n_layers(nw) - 1, Top.i))
       ELSE stack' = Deliver(Top.acc)
    /\ UNCHANGED <<nw, log, sweep, trained, work>>

\* Network::get_current_cost: the map over the last layer, then sum
Step_get_current_cost ==
    /\ Running("get_current_cost")
    /\ IF Top.i < Len(last_layer(nw))
       THEN stack' = Append(stack, Frame_get_value(n_layers(nw) - 1, Top.i))
       ELSE stack' = Deliver(Top.acc)
    /\ UNCHANGED <<nw, log, sweep, trained, work>>

\* get_value up to its call of get_sum: StartNode returns its value, Node
\* its cached result if it has one
Step_get_value ==
    /\ Running("get_value")
    /\ Top.pc = "result_cache"
    /\ LET n == get_node(nw, Top.li, Top.ni)
       IN  IF n.type = "StartNode"
           THEN stack' = Deliver(n.value)
           ELSE IF IsSome(n.result_cache)
           THEN stack' = Deliver(Unwrap(n.result_cache))
           ELSE stack' = Append(stack, Frame_get_sum(Top.li, Top.ni))
    /\ UNCHANGED <<nw, log, sweep, trained, work>>

\* get_value after get_sum: val = inp_sum.sigmoid(), stored and returned
Step_sigmoid ==
    /\ Running("get_value")
    /\ Top.pc = "sigmoid"
    /\ LET val == Sigmoid(Top.inp_sum)
       IN  /\ nw' = put_node(nw, Top.li, Top.ni,
                             [get_node(nw, Top.li, Top.ni) EXCEPT !.result_cache = Some(val)])
           /\ stack' = Deliver(val)
    /\ UNCHANGED <<log, sweep, trained, work>>

\* a variant of get_sum that does not store the sum
Step_get_sum_uncached ==
    /\ Running("get_sum")
    /\ LET n == get_node(nw, Top.li, Top.ni)
       IN  IF IsSome(n.sum_cache)
           THEN /\ stack' = Deliver(Unwrap(n.sum_cache))
                /\ UNCHANGED <<nw, log>>
           ELSE IF Top.i < Len(n.inp_w)
           THEN /\ stack' = Append(stack, Frame_get_value(Top.li - 1, Top.i))
                /\ UNCHANGED <<nw, log>>
           ELSE /\ stack' = Deliver(FAdd(Top.acc, n.bias))
                /\ log' = Append(log, <<Top.li, Top.ni>>)
                /\ UNCHANGED nw
    /\ UNCHANGED <<sweep, trained, work>>

\* Node::get_sum: the cached sum if there is one, else the map over inp_w,
\* its sum + bias, stored and returned
Step_get_sum ==
    /\ Running("get_sum")
    /\ LET n == get_node(nw, Top.li, Top.ni)
       IN  IF IsSome(n.sum_cache)
           THEN /\ stack' = Deliver(Unwrap(n.sum_cache))
                /\ UNCHANGED <<nw, log>>
           ELSE IF Top.i < Len(n.inp_w)
           THEN /\ stack' = Append(stack, Frame_get_value(Top.li - 1, Top.i))
                /\ UNCHANGED <<nw, log>>
           ELSE LET inp_sum == FAdd(Top.acc, n.bias)
                IN  /\ nw' = put_node(nw, Top.li, Top.ni, [n EXCEPT !.sum_cache = Some(inp_sum)])
                    /\ stack' = Deliver(inp_sum)
                    /\ log' = Append(log, <<Top.li, Top.ni>>)
    /\ UNCHANGED <<sweep, trained, work>>

\* the steps of a call in progress
EvalRun ==
    \/ Step_get_outputs
    \/ Step_get_current_cost
    \/ Step_get_value
    \/ Step_sigmoid
    \/ Step_get_sum

EvalNext ==
    \/ Call_get_outputs
    \/ Call_get_current_cost
    \/ Call_get_value
    \/ Call_get_sum
    \/ Call_invalidate
    \/ Call_node_invalidate
    \/ EvalRun

EvalSpec == EvalInit /\ [][EvalNext]_vars

\* a call in progress is not left unfinished: the thread that made it runs
EvalFairSpec == EvalSpec /\ WF_vars(EvalRun)


-----------------------------------------------------------------------------
\* every layer of the network has a node
PositiveSizes(net) == \A i \in 1..Len(net.layers) : Len(net.layers[i]) >= 1

\* every compute node of net is in cache state s
AllIn(net, s) == \A c \in ComputeNodes(net) : CacheState(NodeAt(net, c)) = s

\* the recursion descends: get_outputs and get_current_cost call get_value
\* on the last layer, get_value of a compute node calls get_sum of that node,
\* get_sum of a node of layer L calls get_value on layer L - 1, and get_value
\* of a node of layer 0 calls nothing
Descends ==
    \A k \in 1..Len(stack) :
        LET f == stack[k]
        IN  /\ f.fn = "get_value" => f.li \in 0..(n_layers(nw) - 1)
            /\ f.fn = "get_sum" => f.li \in 1..(n_layers(nw) - 1)
            /\ (f.fn = "get_value" /\ f.li = 0) => k = Len(stack)
            /\ k > 1 =>
                  LET c == stack[k - 1]
                  IN  CASE c.fn = "get_sum" -> f.fn = "get_value" /\ f.li = c.li - 1
                        [] c.fn = "get_value" ->
                              f.fn = "get_sum" /\ f.li = c.li /\ f.ni = c.ni
                        [] OTHER -> f.fn = "get_value" /\ f.li = n_layers(nw) - 1

\* no node is twice in the history of the sums computed
SumsOnce == \A j, k \in 1..Len(log) : log[j] = log[k] => j = k

\* get_outputs or get_current_cost returns to the driver
EvalReturns ==
    /\ Len(stack) = 1
    /\ Top.fn \in {"get_outputs", "get_current_cost"}
    /\ stack' = << >>

\* the call that returns was made on a network of positive layer sizes whose
\* caches were all Empty
FromEmpty == PositiveSizes(sweep.at_call) /\ AllIn(sweep.at_call, "Empty")

\* what the function of the running frame gives on the network of the call
Evaluated ==
    IF Top.fn = "get_outputs"
    THEN get_outputs(sweep.at_call)
    ELSE get_current_cost(sweep.at_call, Top.expected)

\* C32: evaluation on demand terminates and memoizes what it reaches: a
\* call of get_outputs or get_current_cost returns; its recursion descends
\* from layer L to layer L - 1 and stops at layer 0; when it was made on a
\* network of positive layer sizes with all caches Empty it leaves every
\* compute node Full, having computed the sum of each once; and no sum is
\* computed twice before its node is invalidated.
EvaluationOnDemand ==
    /\ [](Descends /\ SumsOnce)
    /\ [][EvalReturns =>
             /\ nw' = Evaluated.nw
             /\ Top.acc = Evaluated.val
             /\ FromEmpty =>
                   /\ AllIn(nw', "Full")
                   /\ {log'[k] : k \in 1..Len(log')} = ComputeNodes(nw)]_vars
    /\ (~Idle ~> Idle)

\* get_outputs, called on a network of three layers with all caches Empty,
\* is about to return: the recursion has filled every cache
EvaluationOnDemand_witness ==
    /\ Len(stack) = 1
    /\ Top.fn = "get_outputs"
    /\ Top.i = Len(last_layer(nw))
    /\ nw.config.shape = <<2, 2, 1>>
    /\ FromEmpty
    /\ AllIn(nw, "Full")
    /\ Len(log) = 3


-----------------------------------------------------------------------------
\* the pending nudge of every compute node of net but those of the set S
PendingBut(net, S) == [m \in ComputeNodes(net) \ S |-> NodeAt(net, m).requested_nudge]

\* the nodes of layer li
NodesIn(net, li) == {m \in ComputeNodes(net) : m[1] = li}

\* what request_nudges_end asks of last-layer node c for the example ex; the
\* weights are those of the whole batch, which apply_nudges changes at its end
RequestedFor(ex, c) ==
    FNeg(FMul(F2, FSub(get_value(Network_invalidate(set_inputs(nw, ex.inputs)), c[1], c[2]).val,
                       ex.expected[c[2] + 1])))

RECURSIVE TotalRequested(_, _)
\* the sum of what the examples of the entries ask of c
TotalRequested(entries, c) ==
    IF entries = << >> THEN F0
    ELSE FAdd(RequestedFor(Head(entries)[2], c), TotalRequested(Tail(entries), c))

\* calc_nudge is about to read the pending nudge of a last-layer node in
\* example j of a batch that began with the nudges cleared: log holds the
\* examples 1..j
ReadsInBatch ==
    /\ AtCalcNudge
    /\ stack[1].fn = "train_on_batch"
    /\ Head(Top.todo)[1] = n_layers(nw) - 1
    /\ Len(log) = trained + 1

\* C33: calc_nudge leaves the node's own pending nudge; the pending nudge of
\* a compute node changes in no step but request_nudges_end (the last
\* layer), calc_nudge of a node of the next layer and clear_nudges, which
\* alone resets it; so within a batch the pending nudge calc_nudge reads in
\* example j is the total of what examples 1..j asked.
PendingNudgeAccumulates ==
    /\ [][/\ AtCalcNudge =>
                PendingBut(nw', NodesIn(nw, Head(Top.todo)[1] - 1)) =
                   PendingBut(nw, NodesIn(nw, Head(Top.todo)[1] - 1))
          /\ AtRequestNudgesEnd =>
                PendingBut(nw', NodesIn(nw, n_layers(nw) - 1)) =
                   PendingBut(nw, NodesIn(nw, n_layers(nw) - 1))
          /\ AtNodeClear =>
                /\ PendingBut(nw', {Head(Top.todo)}) = PendingBut(nw, {Head(Top.todo)})
                /\ NodeAt(nw', Head(Top.todo)).requested_nudge = F0
          /\ (Idle /\ nw' # Network_clear_nudges(nw)) => PendingBut(nw', {}) = PendingBut(nw, {})
          /\ (~Idle /\ ~AtCalcNudge /\ ~AtRequestNudgesEnd /\ ~AtNodeClear) =>
                PendingBut(nw', {}) = PendingBut(nw, {})]_vars
    /\ [](ReadsInBatch =>
             NodeAt(nw, Head(Top.todo)).requested_nudge = TotalRequested(log, Head(Top.todo)))

\* calc_nudge has run on a last-layer node in the second example of a batch
\* and has left the node its pending nudge, the total of two requests
\* neither of which is 0
PendingNudgeAccumulates_witness ==
    /\ Running("train_on_current_data")
    /\ stack[1].fn = "train_on_batch"
    /\ Len(log) = 2
    /\ trained = 1
    /\ \E c \in sweep.visited :
          /\ c[1] = n_layers(nw) - 1
          /\ RequestedFor(log[1][2], c) # F0
          /\ RequestedFor(log[2][2], c) # F0
          /\ NodeAt(nw, c).requested_nudge = TotalRequested(log, c)
          /\ NodeAt(nw, c).requested_nudge # F0


-----------------------------------------------------------------------------
\* the batch of the call the step makes, and its last example
BatchOf(l) == l[1][2][1]
LastOf(batch) == batch[Len(batch)]

\* the network evaluated afresh on the inputs of example ex
EvaluatedOn(net, ex) == get_outputs(Network_invalidate(set_inputs(net, ex.inputs)))

\* the caches of every compute node of net
AllCaches(net) == [c \in ComputeNodes(net) |-> CachesOf(NodeAt(net, c))]

\* C34: the apply phase invalidates no cache: after train_on_batch on a
\* batch that is not empty the caches are those the examples left before
\* apply_nudges ran, every compute node Full with the sum and value computed
\* for the last example under the weights of before the update, and
\* get_outputs and get_current_cost give those values and compute nothing.
ApplyKeepsCaches ==
    [][(CallStep("train_on_batch") /\ BatchOf(log') # << >>) =>
         \A before_apply \in {TrainAll(nw, BatchOf(log'))} :
         \A ev \in {EvaluatedOn(nw, LastOf(BatchOf(log')))} :
             /\ AllCaches(nw') = AllCaches(before_apply)
             /\ AllCaches(nw') = AllCaches(ev.nw)
             /\ AllIn(nw', "Full")
             /\ get_outputs(nw') = [nw |-> nw', val |-> ev.val]
             /\ \A e \in ExpectedVecs(Len(last_layer(nw'))) :
                   get_current_cost(nw', e) = [nw |-> nw', val |-> get_current_cost(ev.nw, e).val]]_vars

\* train_on_batch has returned and moved a bias; the outputs the network
\* gives are not those it gives once invalidated
ApplyKeepsCaches_witness ==
    /\ Idle
    /\ HasNetwork
    /\ LastCall = "train_on_batch"
    /\ LastOutcome = "return"
    /\ \E c \in ComputeNodes(nw) : NodeAt(nw, c).bias # F0
    /\ AllIn(nw, "Full")
    /\ get_outputs(nw).val # get_outputs(Network_invalidate(nw)).val

=============================================================================
